---- MODULE Spec2Model ----
(***************************************************************************)
(* Aevon core: idempotent append with BIGSERIAL ordering (events table),   *)
(* the cursor-driven batch aggregation engine with its transactional       *)
(* Flush (pre_aggregates + sweep_checkpoints), and the hybrid read path of *)
(* the projection service.  The PostgreSQL store is modelled at the level  *)
(* of statements and transactions under READ COMMITTED: a row written by a *)
(* statement becomes visible to other sessions when its transaction        *)
(* commits, a sequence value is drawn when the INSERT executes, and        *)
(* SELECT ... FOR UPDATE holds a row lock until the transaction ends.      *)
(* Time is in seconds; decimals are integers.                              *)
(***************************************************************************)
EXTENDS Integers, Sequences, FiniteSets, TLC

(***************************************************************************)
(* Bounds of the model                                                     *)
(***************************************************************************)
\* highest value the events.ingest_seq sequence hands out in a run
MaxSeq == 2
\* BatchJobParameter.BatchSize of the modelled deployment
BatchSize == 2
\* rawQueryBatchSize and maxRawQueryIterations scaled to the size of the log
RawQueryBatchSize == 1
MaxRawQueryIterations == 2
\* BatchJobParameter.BatchSize of the scheduler whose drain loop is followed,
\* and maxConsecutiveBatches of drainBacklog scaled to the size of the log
DrainBatchSize == 1
maxConsecutiveBatches == 2

(***************************************************************************)
(* Program constants                                                       *)
(***************************************************************************)
\* partition.Count
Count == 256
\* time.Minute, in seconds (BatchJobParameter.BucketSize)
BucketSeconds == 60
\* time.Hour and 24*time.Hour, in seconds
HourSeconds == 3600
DaySeconds == 86400
\* the partition_id QueryRange and QueryRangeWithCheckpoint filter on
queryPartitionID == 0
\* FNV-1a 32 bit: offset basis 0x811C9DC5 and prime 0x01000193 in 16 bit halves
FnvOffsetHi == 33052
FnvOffsetLo == 40389
FnvPrimeHi == 256
FnvPrimeLo == 403

defaultBucketSize == "1m"

OpCount == "count"
OpSum == "sum"
OpMin == "min"
OpMax == "max"

Nobody == "nobody"

(***************************************************************************)
(* Inputs                                                                  *)
(***************************************************************************)
\* principal ids with their UTF-8 bytes; "principal-567" is the principal the
\* integration test picks because it hashes to partition 0
PrincipalBytes ==
    ( "principal-567" :> <<112, 114, 105, 110, 99, 105, 112, 97, 108, 45, 53, 54, 55>> )
    @@ ( "p1" :> <<112, 49>> )

Principals == DOMAIN PrincipalBytes

\* Event.Data: a map from field name to a JSON value
NoData == [f \in {} |-> 0]
NumData(field, n) == (field :> [kind |-> "float64", num |-> n, parses |-> TRUE])
TextData(field) == (field :> [kind |-> "string", num |-> 0, parses |-> FALSE])

\* the client events of the model: api.request events in two one-minute
\* windows, two of them in the same window, and one event of a type no rule names
ClientEvents ==
    { [id |-> "e1", type |-> "api.request", occurredAt |-> 15, data |-> NumData("bytes", 100)],
      [id |-> "e2", type |-> "api.request", occurredAt |-> 75, data |-> NumData("bytes", 250)],
      [id |-> "e3", type |-> "other.event", occurredAt |-> 15, data |-> NoData],
      [id |-> "e4", type |-> "api.request", occurredAt |-> 45, data |-> NumData("bytes", 40)] }

\* the requests POST /v1/events may carry (a retry repeats a request)
EventInputs ==
    { [id |-> c.id, principal |-> p, type |-> c.type, occurredAt |-> c.occurredAt,
       data |-> c.data, schemaVersion |-> 0] : p \in Principals, c \in ClientEvents }

(***************************************************************************)
(* POST /v1/events: parseEvent and validateEvent                           *)
(***************************************************************************)
\* the event of a request that bound to none
NoEvent ==
    [id |-> "", principal |-> "", type |-> "", occurredAt |-> 0, data |-> NoData,
     schemaVersion |-> 0]

\* Service.maxBodySizeBytes as the body-size test sets it
maxBodySizeBytes == 10

\* the zero time.Time, earlier than every instant of the model
ZeroTime == 0 - DaySeconds

PlatformTenantID == "_platform"

\* the schemas of the repository behind the registry
SchemaRepository ==
    { [tenant |-> PlatformTenantID, type |-> "api.request", version |-> 1,
       fields |-> ("bytes" :> "float64")] }

NoSchema == [tenant |-> "", type |-> "", version |-> 0, fields |-> [f \in {} |-> ""]]

\* Registry.Get: the tenant's schema, else the platform schema, else not found
RegistryGet(tenantID, eventType, version) ==
    LET found(t) == { sch \in SchemaRepository :
                        sch.tenant = t /\ sch.type = eventType /\ sch.version = version }
    IN  IF found(tenantID) # {} THEN CHOOSE sch \in found(tenantID) : TRUE
        ELSE IF found(PlatformTenantID) # {} THEN CHOOSE sch \in found(PlatformTenantID) : TRUE
        ELSE NoSchema

\* Validator.ValidateData: every field of the schema is in the data with its type
ValidateData(sch, data) ==
    \A f \in DOMAIN sch.fields : f \in DOMAIN data /\ data[f].kind = sch.fields[f]

\* Event.Validate
Validate(e) ==
    IF e.id = "" THEN "id is required"
    ELSE IF e.principal = "" THEN "principal_id is required"
    ELSE IF e.type = "" THEN "type is required"
    ELSE IF e.occurredAt = ZeroTime THEN "occurred_at is required"
    ELSE "nil"

\* the body of a request: its length, whether reading it fails, whether it
\* binds as JSON, and the event it binds to
Request(evt, size) == [size |-> size, readErr |-> FALSE, json |-> TRUE, evt |-> evt]

\* parseEvent: the LimitReader hands over at most maxBodySizeBytes + 1 bytes
parseEvent(request) ==
    LET len == IF request.size > maxBodySizeBytes + 1
               THEN maxBodySizeBytes + 1 ELSE request.size
    IN  IF request.readErr
        THEN [evt |-> NoEvent, payloadSize |-> 0, err |-> "read_failed"]
        ELSE IF len > maxBodySizeBytes
        THEN [evt |-> NoEvent, payloadSize |-> len, err |-> "too_large"]
        ELSE IF ~request.json
        THEN [evt |-> NoEvent, payloadSize |-> len, err |-> "invalid_json"]
        ELSE [evt |-> request.evt, payloadSize |-> len, err |-> "nil"]

\* a validation that never looks the schema up
validateEventEnvelopeOnly(evt) ==
    IF Validate(evt) # "nil" THEN "envelope" ELSE "nil"

\* validateEvent: the envelope, then the schema when the event names a version
validateEvent(evt) ==
    IF Validate(evt) # "nil" THEN "envelope"
    ELSE IF evt.schemaVersion = 0 THEN "nil"
    ELSE LET sch == RegistryGet("default", evt.type, evt.schemaVersion)
         IN  IF sch = NoSchema THEN "schema_not_found"
             ELSE IF ~ValidateData(sch, evt.data) THEN "schema_invalid"
             ELSE "nil"

\* ingestionError.statusCode as parseEvent, validateEvent and persistEvent set
\* it, and StatusAccepted when there is no error
statusCode(err) ==
    CASE err = "nil" -> 202
      [] err = "ErrDuplicate" -> 409
      [] err = "storage" -> 500
      [] err = "read_failed" -> 500
      [] err = "too_large" -> 413
      [] err \in {"invalid_json", "envelope", "schema_not_found", "schema_invalid"} -> 400

\* cfg.RuleLoading.Rules
Rules ==
    << [name |-> "count_api_requests", sourceEvent |-> "api.request",
        operator |-> OpCount, field |-> "", fingerprint |-> "fp-count"],
       [name |-> "sum_bytes", sourceEvent |-> "api.request",
        operator |-> OpSum, field |-> "bytes", fingerprint |-> "fp-sum"],
       [name |-> "min_bytes", sourceEvent |-> "api.request",
        operator |-> OpMin, field |-> "bytes", fingerprint |-> "fp-min"],
       [name |-> "max_bytes", sourceEvent |-> "api.request",
        operator |-> OpMax, field |-> "bytes", fingerprint |-> "fp-max"] >>

(***************************************************************************)
(* partition.For: FNV-1a over the bytes, modulo Count                      *)
(***************************************************************************)
RECURSIVE Xor(_, _, _)
Xor(a, b, bits) ==
    IF bits = 0 THEN 0
    ELSE (((a % 2) + (b % 2)) % 2) + 2 * Xor(a \div 2, b \div 2, bits - 1)

\* one round of fnv.New32a().Write on a 32 bit hash kept as two 16 bit halves:
\* hash ^= byte; hash *= prime (mod 2^32)
FnvRound(h, byte) ==
    LET lo  == (h.lo - (h.lo % 256)) + Xor(h.lo % 256, byte, 8)
        plo == lo * FnvPrimeLo
        phi == h.hi * FnvPrimeLo + lo * FnvPrimeHi + (plo \div 65536)
    IN  [hi |-> phi % 65536, lo |-> plo % 65536]

RECURSIVE Sum32(_, _)
Sum32(h, bytes) ==
    IF bytes = <<>> THEN h ELSE Sum32(FnvRound(h, Head(bytes)), Tail(bytes))

\* int(h.Sum32()) % Count; Count divides 65536, so the low half decides
For(principalID) ==
    Sum32([hi |-> FnvOffsetHi, lo |-> FnvOffsetLo], PrincipalBytes[principalID]).lo % Count

PartitionOf == [p \in Principals |-> For(p)]

(***************************************************************************)
(* Operators, field extraction, bucketing                                  *)
(***************************************************************************)
Operators == {OpCount, OpSum, OpMin, OpMax}

\* Aggregator.Initial
Initial(op, incoming) ==
    IF op = OpCount THEN 1 ELSE incoming

\* Aggregator.Apply
Apply(op, cur, incoming) ==
    CASE op = OpCount -> cur + 1
      [] op = OpSum -> cur + incoming
      [] op = OpMin -> IF incoming < cur THEN incoming ELSE cur
      [] op = OpMax -> IF incoming > cur THEN incoming ELSE cur

ExtractDecimal(data, field) ==
    IF field = "" THEN 0
    ELSE IF field \notin DOMAIN data THEN 0
    ELSE IF data[field].kind \in {"float64", "float32", "int", "int64", "int32"}
    THEN data[field].num
    ELSE IF data[field].kind = "string" /\ data[field].parses THEN data[field].num
    ELSE 0

BucketFor(t, granularity) == t - (t % granularity)

mergeValueByOperator(operator, current, incoming) ==
    CASE operator \in {OpCount, OpSum} -> current + incoming
      [] operator = OpMin -> IF incoming < current THEN incoming ELSE current
      [] operator = OpMax -> IF incoming > current THEN incoming ELSE current
      [] OTHER -> incoming

(***************************************************************************)
(* The fold of one batch: cron_batch_aggregation.go                        *)
(***************************************************************************)
\* BatchJobParameter.BucketLabel of the one scheduler main.go starts
BucketLabel == "1m"

\* BatchJobParameter of a run for a bucket label: the label and its duration
JobParameter(label) ==
    [BucketLabel |-> label,
     BucketSize  |-> IF label = "10m" THEN 10 * BucketSeconds ELSE BucketSeconds]

SeqIndices(s) == 1..Len(s)
SeqRange(s) == {s[i] : i \in SeqIndices(s)}

\* a rule map that keeps the rules whose operator is not registered
toCompiledRuleMapAll(rules) ==
    [t \in {r.sourceEvent : r \in SeqRange(rules)} |->
        SelectSeq(rules, LAMBDA r : r.sourceEvent = t)]

toCompiledRuleMap(rules) ==
    LET known == SelectSeq(rules, LAMBDA r : r.operator \in Operators)
    IN  [t \in {r.sourceEvent : r \in SeqRange(known)} |->
            SelectSeq(known, LAMBDA r : r.sourceEvent = t)]

\* a key that does not name the principal of the event
AggregateKeyAnyPrincipal(evt, ruleName, bucketLabel, bucketSize) ==
    [partitionID |-> 0,
     principalID |-> "",
     ruleName    |-> ruleName,
     bucketSize  |-> bucketLabel,
     windowStart |-> BucketFor(evt.occurredAt, bucketSize)]

AggregateKey(evt, ruleName, bucketLabel, bucketSize) ==
    [partitionID |-> PartitionOf[evt.principal],
     principalID |-> evt.principal,
     ruleName    |-> ruleName,
     bucketSize  |-> bucketLabel,
     windowStart |-> BucketFor(evt.occurredAt, bucketSize)]

\* the inner loop of mergeGroupAggregates: one event against the rules of its type
RECURSIVE mergeEventRules(_, _, _, _)
mergeEventRules(target, evt, rulesForEvent, opts) ==
    IF rulesForEvent = <<>> THEN target
    ELSE LET cr       == Head(rulesForEvent)
             key      == AggregateKey(evt, cr.name, opts.BucketLabel, opts.BucketSize)
             incoming == ExtractDecimal(evt.data, cr.field)
             next     ==
                 IF key \notin DOMAIN target
                 THEN target @@ (key :> [operator        |-> cr.operator,
                                         value           |-> Initial(cr.operator, incoming),
                                         eventCount      |-> 1,
                                         lastEventID     |-> evt.id,
                                         ruleFingerprint |-> cr.fingerprint])
                 ELSE [target EXCEPT ![key] =
                          [@ EXCEPT !.value = Apply(cr.operator, @, incoming),
                                    !.eventCount = @ + 1,
                                    !.lastEventID = evt.id]]
         IN  mergeEventRules(next, evt, Tail(rulesForEvent), opts)

RECURSIVE mergeGroupAggregates(_, _, _, _)
mergeGroupAggregates(target, evts, ruleCache, opts) ==
    IF evts = <<>> THEN target
    ELSE LET evt == Head(evts)
         IN  IF evt.type \notin DOMAIN ruleCache
             THEN mergeGroupAggregates(target, Tail(evts), ruleCache, opts)
             ELSE mergeGroupAggregates(mergeEventRules(target, evt, ruleCache[evt.type], opts),
                                       Tail(evts), ruleCache, opts)

\* the join of buildPreAggregatesConcurrently: worker-local maps merged key by key
RECURSIVE mergeLocal(_, _, _)
mergeLocal(merged, local, keys) ==
    IF keys = {} THEN merged
    ELSE LET key   == CHOOSE k \in keys : TRUE
             state == local[key]
             next  ==
                 IF key \in DOMAIN merged
                 THEN [merged EXCEPT ![key] =
                          [@ EXCEPT !.value = mergeValueByOperator(@.operator, @.value, state.value),
                                    !.eventCount = @ + state.eventCount,
                                    !.lastEventID = state.lastEventID,
                                    !.ruleFingerprint = state.ruleFingerprint]]
                 ELSE merged @@ (key :> state)
         IN  mergeLocal(next, local, keys \ {key})

RECURSIVE mergeResults(_, _)
mergeResults(merged, locals) ==
    IF locals = <<>> THEN merged
    ELSE mergeResults(mergeLocal(merged, Head(locals), DOMAIN Head(locals)), Tail(locals))

EmptyAggregates == [k \in {} |-> 0]

\* groups by principal, one local map per group, merged at the join
RECURSIVE groupLocals(_, _, _, _)
groupLocals(evts, principals, ruleMap, jobParameter) ==
    IF principals = {} THEN <<>>
    ELSE LET p == CHOOSE x \in principals : TRUE
             groupEvents == SelectSeq(evts, LAMBDA e : e.principal = p)
         IN  <<mergeGroupAggregates(EmptyAggregates, groupEvents, ruleMap, jobParameter)>>
             \o groupLocals(evts, principals \ {p}, ruleMap, jobParameter)

buildPreAggregatesConcurrently(evts, ruleMap, jobParameter) ==
    mergeResults(EmptyAggregates,
                 groupLocals(evts, {e.principal : e \in SeqRange(evts)}, ruleMap, jobParameter))

(***************************************************************************)
(* Store statements                                                        *)
(***************************************************************************)
\* an INSERT that finds no arbiter conflict
ConflictsNever(rows, evt) == FALSE

\* events primary key (principal_id, id): ON CONFLICT (principal_id, id)
Conflicts(rows, evt) ==
    \E r \in rows : r.principal = evt.principal /\ r.id = evt.id

\* a sequence that hands out the value it handed out before
NextValStuck(last) == last

\* BIGSERIAL default: nextval of the ingest_seq sequence
NextVal(last) == last + 1

RECURSIVE SortBySeq(_)
SortBySeq(rows) ==
    IF rows = {} THEN <<>>
    ELSE LET first == CHOOSE r \in rows : \A o \in rows : r.seq <= o.seq
         IN  <<first>> \o SortBySeq(rows \ {first})

Prefix(s, n) == IF Len(s) <= n THEN s ELSE SubSeq(s, 1, n)

\* a query whose WHERE clause also takes the row at the cursor
RetrieveEventsFromCursor(rows, cursor, limit) ==
    Prefix(SortBySeq({r \in rows : r.seq >= cursor}), limit)

\* queryRetrieveEventsAfterCursor: WHERE ingest_seq > $1 ORDER BY ingest_seq LIMIT $2
RetrieveEventsAfterCursor(rows, cursor, limit) ==
    Prefix(SortBySeq({r \in rows : r.seq > cursor}), limit)

\* a scoped read that starts at the cursor instead of after it
RetrieveScopedEventsFromCursor(rows, cursor, principalID, eventType, startAt, endAt, limit) ==
    Prefix(SortBySeq({r \in rows : /\ r.seq >= cursor
                                   /\ r.principal = principalID
                                   /\ r.type = eventType
                                   /\ r.occurredAt >= startAt
                                   /\ r.occurredAt < endAt}), limit)

\* queryRetrieveScopedEventsAfterCursor
RetrieveScopedEventsAfterCursor(rows, cursor, principalID, eventType, startAt, endAt, limit) ==
    Prefix(SortBySeq({r \in rows : /\ r.seq > cursor
                                   /\ r.principal = principalID
                                   /\ r.type = eventType
                                   /\ r.occurredAt >= startAt
                                   /\ r.occurredAt < endAt}), limit)

\* a read of the checkpoint of the default bucket size, whatever the label
ReadCheckpointAnyLabel(ckpts, bucketSize) == ckpts[defaultBucketSize]

\* queryReadCheckpoint + sql.ErrNoRows -> 0
ReadCheckpoint(ckpts, bucketSize) ==
    IF bucketSize \in DOMAIN ckpts THEN ckpts[bucketSize] ELSE 0

\* a Flush without the guard
IsStaleNever(cursor, durableCursor) == FALSE

\* a guard that lets a flush at the durable cursor through
IsStaleStrict(cursor, durableCursor) == cursor < durableCursor

\* the stale-flush guard of Flush
IsStale(cursor, durableCursor) == cursor <= durableCursor

\* keyBucketSize of the upsert loop: an empty bucket size stands for the default
keyBucketSize(key) == IF key.bucketSize = "" THEN defaultBucketSize ELSE key.bucketSize

\* the bucket_size argument of Flush after its default
flushBucketSize(bucketSize) == IF bucketSize = "" THEN defaultBucketSize ELSE bucketSize

\* an upsert loop that takes every key
BucketMismatchIgnored(aggregates, bucketSize) == {}

\* the keys at which the upsert loop returns the bucket mismatch error
BucketMismatch(aggregates, bucketSize) ==
    { k \in DOMAIN aggregates : keyBucketSize(k) # flushBucketSize(bucketSize) }

\* the row key the upsert statement is given
RowKey(key) == [key EXCEPT !.bucketSize = keyBucketSize(key)]

\* an upsert that overwrites the row it finds
UpsertRowReplaces(tbl, key, state) ==
    IF key \in DOMAIN tbl THEN [tbl EXCEPT ![key] = state] ELSE tbl @@ (key :> state)

\* queryUpsertPreAggregate for one row: the columns of the SET clause, the
\* other columns of a row in conflict stay (updated_at where the state has it)
UpsertRow(tbl, key, state) ==
    IF key \in DOMAIN tbl
    THEN [tbl EXCEPT ![key] =
             [f \in DOMAIN @ |->
                 CASE f = "value" ->
                          (CASE state.operator \in {OpCount, OpSum} -> @.value + state.value
                             [] state.operator = OpMin ->
                                    IF state.value < @.value THEN state.value ELSE @.value
                             [] state.operator = OpMax ->
                                    IF state.value > @.value THEN state.value ELSE @.value
                             [] OTHER -> state.value)
                   [] f = "eventCount" -> @.eventCount + state.eventCount
                   [] f \in {"lastEventID", "ruleFingerprint", "updatedAt"} -> state[f]
                   [] OTHER -> @[f]]]
    ELSE tbl @@ (key :> state)

Upsert(tbl, key, state) == UpsertRow(tbl, RowKey(key), state)

\* the upsert loop of Flush over the aggregates map
RECURSIVE UpsertAll(_, _, _)
UpsertAll(tbl, aggregates, keys) ==
    IF keys = {} THEN tbl
    ELSE LET key == CHOOSE k \in keys : TRUE
         IN  UpsertAll(Upsert(tbl, key, aggregates[key]), aggregates, keys \ {key})

(***************************************************************************)
(* The projection service: service.go and rollup.go                        *)
(***************************************************************************)
RuleNames == {Rules[i].name : i \in SeqIndices(Rules)}
RuleNamed(name) == CHOOSE r \in SeqRange(Rules) : r.name = name

\* NewService: the rules by name
ServiceRules == [n \in RuleNames |-> RuleNamed(n)]

Granularities == {"total", "1m", "1h", "1d"}

bucketCandidatesByGranularity(granularity) ==
    IF granularity \in Granularities THEN <<"1m">> ELSE <<defaultBucketSize>>

\* parseBucketSize for the labels of the model; 0 stands for its error
parseBucketSize(label) ==
    CASE label = "" -> BucketSeconds
      [] label = "1m" -> BucketSeconds
      [] label = "1h" -> HourSeconds
      [] label = "1d" -> DaySeconds
      [] OTHER -> 0

\* a validation that does not compare end with start
normalizeAndValidateAnyRange(req) ==
    LET norm == IF req.granularity = "" THEN [req EXCEPT !.granularity = "total"] ELSE req
    IN  IF req.tenant = "" \/ req.principal = "" \/ req.rule = ""
        THEN [req |-> norm, err |-> "ErrInvalidQuery"]
        ELSE IF norm.granularity \notin Granularities
        THEN [req |-> norm, err |-> "ErrInvalidQuery"]
        ELSE [req |-> norm, err |-> "nil"]

normalizeAndValidate(req) ==
    LET norm == IF req.granularity = "" THEN [req EXCEPT !.granularity = "total"] ELSE req
    IN  IF req.tenant = "" \/ req.principal = "" \/ req.rule = ""
        THEN [req |-> norm, err |-> "ErrInvalidQuery"]
        ELSE IF ~(req.end > req.start)
        THEN [req |-> norm, err |-> "ErrInvalidQuery"]
        ELSE IF norm.granularity \notin Granularities
        THEN [req |-> norm, err |-> "ErrInvalidQuery"]
        ELSE [req |-> norm, err |-> "nil"]

RECURSIVE SortByWindow(_)
SortByWindow(states) ==
    IF states = {} THEN <<>>
    ELSE LET first == CHOOSE x \in states : \A o \in states : x.windowStart <= o.windowStart
         IN  <<first>> \o SortByWindow(states \ {first})

\* a row of pre_aggregates as the range queries scan it
ScannedState(tbl, k) ==
    [windowStart     |-> k.windowStart,
     operator        |-> tbl[k].operator,
     value           |-> tbl[k].value,
     eventCount      |-> tbl[k].eventCount,
     lastEventID     |-> tbl[k].lastEventID,
     ruleFingerprint |-> tbl[k].ruleFingerprint]

\* queryRangePreAggregates with the partition id QueryRange passes
QueryRange(tbl, principalID, ruleName, bucketSize, startTime, endTime) ==
    LET label == IF bucketSize = "" THEN defaultBucketSize ELSE bucketSize
        hits  == {k \in DOMAIN tbl : /\ k.partitionID = queryPartitionID
                                     /\ k.principalID = principalID
                                     /\ k.ruleName = ruleName
                                     /\ k.bucketSize = label
                                     /\ k.windowStart >= startTime
                                     /\ k.windowStart < endTime}
    IN  SortByWindow({ScannedState(tbl, k) : k \in hits})

\* queryRangePreAggregatesWithCheckpoint: both from one statement snapshot
QueryRangeWithCheckpoint(tbl, ckpts, principalID, ruleName, bucketSize, startTime, endTime) ==
    LET label == IF bucketSize = "" THEN defaultBucketSize ELSE bucketSize
    IN  [aggregates |-> QueryRange(tbl, principalID, ruleName, label, startTime, endTime),
         checkpoint |-> ReadCheckpoint(ckpts, label)]

EmptyBuckets == [w \in {} |-> 0]

RECURSIVE foldRawEventsIntoBuckets(_, _, _, _)
foldRawEventsIntoBuckets(evts, buckets, rule, bucketDuration) ==
    IF evts = <<>> THEN buckets
    ELSE LET evt         == Head(evts)
             windowStart == BucketFor(evt.occurredAt, bucketDuration)
             fieldValue  == ExtractDecimal(evt.data, rule.field)
             next        ==
                 IF windowStart \notin DOMAIN buckets
                 THEN buckets @@ (windowStart :>
                          [windowStart     |-> windowStart,
                           operator        |-> rule.operator,
                           value           |-> Initial(rule.operator, fieldValue),
                           eventCount      |-> 1,
                           lastEventID     |-> evt.id,
                           ruleFingerprint |-> rule.fingerprint])
                 ELSE [buckets EXCEPT ![windowStart] =
                          [@ EXCEPT !.value = Apply(rule.operator, @, fieldValue),
                                    !.eventCount = @ + 1,
                                    !.lastEventID = evt.id]]
         IN  foldRawEventsIntoBuckets(Tail(evts), next, rule, bucketDuration)

\* a loop of scanScopedRawEvents without the check of maxRawQueryIterations
scanIterationUncapped(rows, scan, req, rule, bucketDuration) ==
    LET evts == RetrieveScopedEventsAfterCursor(rows, scan.cursor, req.principal,
                    rule.sourceEvent, req.start, req.end, RawQueryBatchSize)
    IN  IF evts = <<>>
        THEN [scan EXCEPT !.status = "done"]
        ELSE [cursor     |-> evts[Len(evts)].seq,
              iterations |-> scan.iterations + 1,
              buckets    |-> foldRawEventsIntoBuckets(evts, scan.buckets, rule, bucketDuration),
              status     |-> IF Len(evts) < RawQueryBatchSize THEN "done" ELSE "more"]

\* one turn of the loop of scanScopedRawEvents; consume is the fold of loadRawEvents
scanIteration(rows, scan, req, rule, bucketDuration) ==
    IF scan.iterations >= MaxRawQueryIterations
    THEN [scan EXCEPT !.status = "error"]
    ELSE LET evts == RetrieveScopedEventsAfterCursor(rows, scan.cursor, req.principal,
                         rule.sourceEvent, req.start, req.end, RawQueryBatchSize)
         IN  IF evts = <<>>
             THEN [scan EXCEPT !.status = "done"]
             ELSE [cursor     |-> evts[Len(evts)].seq,
                   iterations |-> scan.iterations + 1,
                   buckets    |-> foldRawEventsIntoBuckets(evts, scan.buckets, rule,
                                                           bucketDuration),
                   status     |-> IF Len(evts) < RawQueryBatchSize THEN "done" ELSE "more"]

ScanFrom(checkpoint) ==
    [cursor |-> checkpoint, iterations |-> 0, buckets |-> EmptyBuckets, status |-> "more"]

RECURSIVE scanScopedRawEvents(_, _, _, _, _)
scanScopedRawEvents(rows, scan, req, rule, bucketDuration) ==
    LET next == scanIteration(rows, scan, req, rule, bucketDuration)
    IN  IF next.status = "more"
        THEN scanScopedRawEvents(rows, next, req, rule, bucketDuration)
        ELSE next

\* the tail of loadRawEvents: the buckets sorted by window start
SortedBuckets(buckets) == SortByWindow({buckets[w] : w \in DOMAIN buckets})

\* a merge that keeps the incoming value whatever the operator
mergeAggregateValueIncoming(operator, current, incoming) == incoming

mergeAggregateValue(operator, current, incoming) ==
    CASE operator \in {OpCount, OpSum} -> current + incoming
      [] operator = OpMin -> IF incoming < current THEN incoming ELSE current
      [] operator = OpMax -> IF incoming > current THEN incoming ELSE current
      [] OTHER -> incoming

RECURSIVE mergeTail(_, _, _)
mergeTail(merged, tail, operator) ==
    IF tail = <<>> THEN merged
    ELSE LET incoming == Head(tail)
             next ==
                 IF incoming.windowStart \notin DOMAIN merged
                 THEN merged @@ (incoming.windowStart :> incoming)
                 ELSE [merged EXCEPT ![incoming.windowStart] =
                          [@ EXCEPT !.value = mergeAggregateValue(operator, @, incoming.value),
                                    !.eventCount = @ + incoming.eventCount,
                                    !.lastEventID =
                                        IF incoming.lastEventID # "" THEN incoming.lastEventID ELSE @,
                                    !.ruleFingerprint =
                                        IF incoming.ruleFingerprint # ""
                                        THEN incoming.ruleFingerprint ELSE @]]
         IN  mergeTail(next, Tail(tail), operator)

mergeAggregateStates(base, tail, operator) ==
    LET baseMap == [w \in {st.windowStart : st \in SeqRange(base)} |->
                       LET last == CHOOSE i \in SeqIndices(base) :
                                      /\ base[i].windowStart = w
                                      /\ \A j \in SeqIndices(base) :
                                            base[j].windowStart = w => j <= i
                       IN  base[last]]
    IN  SortedBuckets(mergeTail(baseMap, tail, operator))

(***************************************************************************)
(* Roll-ups and the response                                               *)
(***************************************************************************)
\* the value loop of the roll-ups: total and initialized over the states
RECURSIVE reduceValues(_, _, _, _)
reduceValues(aggregates, operator, total, initialized) ==
    IF aggregates = <<>> THEN total
    ELSE LET agg == Head(aggregates)
         IN  CASE operator \in {"count", "sum"} ->
                    reduceValues(Tail(aggregates), operator, total + agg.value, initialized)
               [] operator = "min" ->
                    IF ~initialized \/ agg.value < total
                    THEN reduceValues(Tail(aggregates), operator, agg.value, TRUE)
                    ELSE reduceValues(Tail(aggregates), operator, total, initialized)
               [] operator = "max" ->
                    IF ~initialized \/ agg.value > total
                    THEN reduceValues(Tail(aggregates), operator, agg.value, TRUE)
                    ELSE reduceValues(Tail(aggregates), operator, total, initialized)
               [] OTHER -> reduceValues(Tail(aggregates), operator, total, initialized)

RECURSIVE sumEventCounts(_)
sumEventCounts(aggregates) ==
    IF aggregates = <<>> THEN 0
    ELSE Head(aggregates).eventCount + sumEventCounts(Tail(aggregates))

AggregateValue(windowStart, windowEnd, value, eventCount) ==
    [windowStart |-> windowStart, windowEnd |-> windowEnd,
     value |-> value, eventCount |-> eventCount]

rollupTotal(aggregates, start, end) ==
    IF aggregates = <<>> THEN <<AggregateValue(start, end, 0, 0)>>
    ELSE <<AggregateValue(start, end,
                          reduceValues(aggregates, aggregates[1].operator, 0, FALSE),
                          sumEventCounts(aggregates))>>

convertToValues(aggregates, bucketDuration) ==
    LET duration == IF bucketDuration <= 0 THEN BucketSeconds ELSE bucketDuration
    IN  [i \in SeqIndices(aggregates) |->
            AggregateValue(aggregates[i].windowStart, aggregates[i].windowStart + duration,
                           aggregates[i].value, aggregates[i].eventCount)]

\* the locations of time.Time values: "UTC" is time.UTC, "+02:00" is the zone
\* time.Parse makes for a timestamp written with that offset
Zones == {"UTC", "+02:00"}
ZoneOffset == ("UTC" :> 0) @@ ("+02:00" :> 2 * HourSeconds)

\* the location of the timestamps scanned from the store (session time zone UTC)
StoreZone == "UTC"

\* a time.Time as a map key: == compares the instant and the location
TimeKey(sec, zone) == [sec |-> sec, loc |-> zone]

Truncate(t, d) == t - (t % d)

\* time.Date(year, month, day, 0, 0, 0, 0, t.Location())
truncateToDay(t, zone) == t - ((t + ZoneOffset[zone]) % DaySeconds)

\* hourlyBuckets and dailyBuckets: the states appended under the key of their period
hourKey(a) == TimeKey(Truncate(a.windowStart, HourSeconds), StoreZone)

dayKey(a) == TimeKey(truncateToDay(a.windowStart, StoreZone), StoreZone)

hourlyBuckets(aggregates) ==
    [k \in {hourKey(aggregates[i]) : i \in SeqIndices(aggregates)} |->
        SelectSeq(aggregates, LAMBDA a : hourKey(a) = k)]

dailyBuckets(aggregates) ==
    [k \in {dayKey(aggregates[i]) : i \in SeqIndices(aggregates)} |->
        SelectSeq(aggregates, LAMBDA a : dayKey(a) = k)]

\* the result loop of rollupToHour and rollupToDay: one entry per period, the
\* group looked up under the period start, which has the location of start
RECURSIVE rollupPeriods(_, _, _, _, _, _)
rollupPeriods(current, endExclusive, period, groups, operator, zone) ==
    IF ~(current < endExclusive) THEN <<>>
    ELSE LET key    == TimeKey(current, zone)
             bucket == IF key \in DOMAIN groups THEN groups[key] ELSE <<>>
         IN  <<AggregateValue(current, current + period,
                              reduceValues(bucket, operator, 0, FALSE),
                              sumEventCounts(bucket))>>
             \o rollupPeriods(current + period, endExclusive, period, groups, operator, zone)

RECURSIVE emptyPeriods(_, _, _)
emptyPeriods(current, endExclusive, period) ==
    IF ~(current < endExclusive) THEN <<>>
    ELSE <<AggregateValue(current, current + period, 0, 0)>>
         \o emptyPeriods(current + period, endExclusive, period)

\* an end of the day loop that always steps past the day of end
endDayExclusiveNextDay(end, zone) == truncateToDay(end, zone) + DaySeconds

endDayExclusive(end, zone) ==
    IF end > truncateToDay(end, zone)
    THEN truncateToDay(end, zone) + DaySeconds ELSE truncateToDay(end, zone)

emptyHourlyBuckets(start, end) == emptyPeriods(Truncate(start, HourSeconds), end, HourSeconds)

emptyDailyBuckets(start, end, zone) ==
    emptyPeriods(truncateToDay(start, zone), endDayExclusive(end, zone), DaySeconds)

rollupToHour(aggregates, start, end, zone) ==
    IF aggregates = <<>> THEN emptyHourlyBuckets(start, end)
    ELSE rollupPeriods(Truncate(start, HourSeconds), end, HourSeconds,
                       hourlyBuckets(aggregates), aggregates[1].operator, zone)

rollupToDay(aggregates, start, end, zone) ==
    IF aggregates = <<>> THEN emptyDailyBuckets(start, end, zone)
    ELSE rollupPeriods(truncateToDay(start, zone), endDayExclusive(end, zone), DaySeconds,
                       dailyBuckets(aggregates), aggregates[1].operator, zone)

rollupForGranularity(aggregates, granularity, bucketDuration, start, end, zone) ==
    CASE granularity = "total" -> rollupTotal(aggregates, start, end)
      [] granularity = "1m" -> convertToValues(aggregates, bucketDuration)
      [] granularity = "1h" ->
            IF bucketDuration = HourSeconds THEN convertToValues(aggregates, bucketDuration)
            ELSE rollupToHour(aggregates, start, end, zone)
      [] granularity = "1d" ->
            IF bucketDuration = DaySeconds THEN convertToValues(aggregates, bucketDuration)
            ELSE rollupToDay(aggregates, start, end, zone)
      [] OTHER -> rollupTotal(aggregates, start, end)

RECURSIVE latestWindowEnd(_, _, _)
latestWindowEnd(aggregates, bucketDuration, dataThrough) ==
    IF aggregates = <<>> THEN dataThrough
    ELSE LET windowEnd == Head(aggregates).windowStart + bucketDuration
         IN  latestWindowEnd(Tail(aggregates), bucketDuration,
                             IF windowEnd > dataThrough THEN windowEnd ELSE dataThrough)

\* a data_through that is not held back at the end of the request
computeDataThroughLatest(end, aggregates, bucketDuration) ==
    IF aggregates = <<>> THEN end
    ELSE latestWindowEnd(aggregates, bucketDuration, 0)

computeDataThrough(end, aggregates, bucketDuration) ==
    IF aggregates = <<>> THEN end
    ELSE LET dataThrough == latestWindowEnd(aggregates, bucketDuration, 0)
         IN  IF dataThrough > end THEN end ELSE dataThrough

minTime(a, b) == IF a < b THEN a ELSE b

\* the part of QueryAggregates after the two loads: merge, roll-up,
\* data_through; now and later are the two readings of nowFn
RespondAt(req, rule, preAggregates, rawAggregates, bucketSize, now, later) ==
    LET merged         == mergeAggregateStates(preAggregates, rawAggregates, rule.operator)
        bucketDuration == parseBucketSize(bucketSize)
        dataThrough    == minTime(computeDataThrough(req.end, merged, bucketDuration), now)
    IN  [tenant           |-> req.tenant,
         principal        |-> req.principal,
         rule             |-> req.rule,
         operator         |-> rule.operator,
         start            |-> req.start,
         end              |-> req.end,
         granularity      |-> req.granularity,
         dataThrough      |-> dataThrough,
         stalenessSeconds |-> IF later - dataThrough < 0 THEN 0 ELSE later - dataThrough,
         values           |-> rollupForGranularity(merged, req.granularity, bucketDuration,
                                                   req.start, req.end, req.zone)]

\* a request during which the clock does not move
Respond(req, rule, preAggregates, rawAggregates, bucketSize, now) ==
    RespondAt(req, rule, preAggregates, rawAggregates, bucketSize, now, now)

NoResponse == [values |-> <<>>]

\* HandleQueryAggregates: the HTTP status for the outcome of QueryAggregates
HandleQueryAggregates(err) ==
    CASE err = "nil" -> 200
      [] err = "ErrInvalidQuery" -> 400
      [] OTHER -> 500

RECURSIVE loadPreAggregates(_, _, _, _)
loadPreAggregates(tbl, ckpts, req, candidates) ==
    LET bucketSize == Head(candidates)
        got == QueryRangeWithCheckpoint(tbl, ckpts, req.principal, req.rule, bucketSize,
                                        req.start, req.end)
    IN  IF got.aggregates # <<>> \/ Len(candidates) = 1
        THEN [aggregates |-> got.aggregates, bucketSize |-> bucketSize,
              checkpoint |-> got.checkpoint]
        ELSE loadPreAggregates(tbl, ckpts, req, Tail(candidates))

\* QueryAggregates against one state of the store, no statement of another
\* session in between
QueryAggregates(rows, tbl, ckpts, request, now) ==
    LET checked == normalizeAndValidate(request)
        req     == checked.req
    IN  IF checked.err # "nil" THEN [err |-> checked.err, resp |-> NoResponse]
        ELSE IF req.rule \notin DOMAIN ServiceRules
        THEN [err |-> "ErrInvalidQuery", resp |-> NoResponse]
        ELSE LET rule   == ServiceRules[req.rule]
                 loaded == loadPreAggregates(tbl, ckpts, req,
                               bucketCandidatesByGranularity(req.granularity))
                 scan   == scanScopedRawEvents(rows, ScanFrom(loaded.checkpoint), req, rule,
                                               parseBucketSize(loaded.bucketSize))
             IN  IF rule.operator \notin Operators \/ scan.status = "error"
                 THEN [err |-> "query raw event tail", resp |-> NoResponse]
                 ELSE [err  |-> "nil",
                       resp |-> Respond(req, rule, loaded.aggregates,
                                        SortedBuckets(scan.buckets), loaded.bucketSize, now)]

\* zone: the location of Start and End as the binding parsed them
QueryRequest(principal, rule, granularity, start, end) ==
    [tenant |-> "default", principal |-> principal, rule |-> rule,
     granularity |-> granularity, start |-> start, end |-> end, zone |-> "UTC"]

\* the requests GET .../aggregates may carry in the model
QueryRequests ==
    { QueryRequest(p, "count_api_requests", "total", 0, 120) : p \in Principals }
    \cup { QueryRequest("p1", "sum_bytes", "1m", 0, 120),
           QueryRequest("principal-567", "max_bytes", "", 60, 120),
           QueryRequest("p1", "no_such_rule", "total", 0, 120),
           QueryRequest("p1", "count_api_requests", "1w", 0, 120),
           QueryRequest("p1", "count_api_requests", "total", 60, 60) }

\* the readings of the clock behind nowFn
Clock == {100, 200}

(***************************************************************************)
(* State                                                                   *)
(***************************************************************************)
VARIABLES
    events,       \* committed rows of the events table
    seqLast,      \* last value drawn from the ingest_seq sequence
    writer,       \* per ingestion request: position in SaveEvent and the caller's event
    preAgg,       \* committed rows of pre_aggregates, by primary key
    checkpoints,  \* committed rows of sweep_checkpoints, by bucket_size
    ckLock,       \* holder of the FOR UPDATE lock on a sweep_checkpoints row
    sweeper,      \* per sweeper: position in one batch iteration and its locals
    query,        \* the projection request in progress: position and locals
    calc,         \* a call of a pure function of the service: its arguments and result
    scheduler     \* Scheduler.Start: its position, its contexts and its ticker

vars == <<events, seqLast, writer, preAgg, checkpoints, ckLock, sweeper, query, calc, scheduler>>

Writers == {"w1", "w2"}
Sweepers == {"s1", "s2"}
\* the bucket size the migration seeds a checkpoint row for, and one it does not
BucketLabels == {BucketLabel, "10m"}

\* payloadSize: len(bodyBytes) as parseEvent returns it
WriterIdle ==
    [pc |-> "idle", event |-> NoEvent, ingestSeq |-> 0, err |-> "nil", payloadSize |-> 0]

\* no direct call of Flush
NoFlushArgs ==
    [direct |-> FALSE, aggregates |-> EmptyAggregates, cursor |-> 0, bucketSize |-> ""]

\* how the iteration before this one ended: "failed" with the cursor it read
\* and the ingest_seq values it fetched, or "none"
NoLast == [outcome |-> "none", cursor |-> 0, seqs |-> {}]

\* flush: how the Flush call of the iteration ended
\* args: the arguments of a call of Flush that does not come from an
\* iteration; for an iteration, bucketSize is the bucket label of its options
SweeperIdle ==
    [pc |-> "idle", cursor |-> 0, batch |-> <<>>, durableCursor |-> 0,
     txPreAgg |-> EmptyAggregates, txCheckpoints |-> EmptyAggregates,
     count |-> 0, err |-> "nil", flush |-> "none", last |-> NoLast,
     args |-> NoFlushArgs, noRows |-> FALSE]

NoRequest == QueryRequest("", "", "", 0, 0)

\* atStart: the ingest_seq values of the events in the scope of the request
\* that were in the log when QueryAggregates was called
\* path: which branch of loadPreAggregates read the aggregates and the checkpoint
QueryIdle ==
    [pc |-> "idle", req |-> NoRequest, aggregates |-> <<>>, bucketSize |-> "",
     checkpoint |-> 0, scan |-> ScanFrom(0), resp |-> NoResponse, err |-> "nil",
     atStart |-> {}, path |-> ""]

NoCalc == [pc |-> "none"]

\* NewScheduler, before Start is called
\* pc: "new", "select" (blocked in the select of Start), "drain" (at the loop
\*     condition of drainBacklog), "iterating" (inside
\*     RunBatchAggregationWithOptionsReturningCount), "returned" (Start returned)
\* call: which call of drainBacklog runs: "initial", "tick" or "final"
\* ctxDone: ctx is cancelled; shutdownDone: the deadline of shutdownCtx passed
\* tick: a tick is waiting in ticker.C
\* exit: how the last call of drainBacklog returned
\* finals: calls of drainBacklog(shutdownCtx) so far
\* logSize: the number of events in the log when the running call began
SchedulerNew ==
    [pc |-> "new", call |-> "none", batchCount |-> 0, ctxDone |-> FALSE,
     shutdownDone |-> FALSE, tick |-> FALSE, exit |-> "none", finals |-> 0,
     logSize |-> 0, batchSize |-> DrainBatchSize]

\* the schema after migration 001: empty tables and the ('1m', 0) checkpoint row
Init ==
    /\ events = {}
    /\ seqLast = 0
    /\ writer = [w \in Writers |-> WriterIdle]
    /\ preAgg = EmptyAggregates
    /\ checkpoints = (defaultBucketSize :> 0)
    /\ ckLock = [b \in BucketLabels |-> Nobody]
    /\ sweeper = [s \in Sweepers |-> SweeperIdle]
    /\ query = QueryIdle
    /\ calc = NoCalc
    /\ scheduler = SchedulerNew

\* rows inserted by statements whose transaction has not ended yet
InFlight(w) ==
    IF writer[w].pc = "inserted"
    THEN {[id |-> writer[w].event.id, principal |-> writer[w].event.principal,
           seq |-> writer[w].ingestSeq]}
    ELSE {}

EventRow(evt, seq) ==
    [id |-> evt.id, principal |-> evt.principal, type |-> evt.type,
     occurredAt |-> evt.occurredAt, data |-> evt.data, seq |-> seq]

(***************************************************************************)
(* Adapter.SaveEvent: INSERT ... ON CONFLICT DO NOTHING RETURNING          *)
(***************************************************************************)
\* the INSERT executes: the default draws nextval, then the arbiter index is
\* checked; a conflicting committed row makes the statement return no row
SaveEventStatement(w, input, payloadSize) ==
    /\ seqLast < MaxSeq
    \* an uncommitted row with the same key makes the INSERT wait
    /\ \A o \in Writers \ {w} : ~Conflicts(InFlight(o), input)
    /\ seqLast' = NextVal(seqLast)
    /\ IF Conflicts(events, input)
       THEN writer' = [writer EXCEPT ![w] =
               [pc |-> "done", event |-> input, ingestSeq |-> 0, err |-> "ErrDuplicate",
                payloadSize |-> payloadSize]]
       ELSE writer' = [writer EXCEPT ![w] =
               [pc |-> "inserted", event |-> input,
                ingestSeq |-> NextVal(seqLast), err |-> "nil",
                payloadSize |-> payloadSize]]

\* a request whose body is below the cap and binds to a valid event
SaveEventExec(w) ==
    /\ writer[w].pc = "idle"
    /\ \E input \in EventInputs : SaveEventStatement(w, input, maxBodySizeBytes - 1)
    /\ UNCHANGED <<events, preAgg, checkpoints, ckLock, sweeper, query, calc, scheduler>>

\* the statement's implicit transaction commits: the row becomes visible and
\* Scan stores ingest_seq into the caller's event
SaveEventCommit(w) ==
    /\ writer[w].pc = "inserted"
    /\ events' = events \cup {EventRow(writer[w].event, writer[w].ingestSeq)}
    /\ writer' = [writer EXCEPT ![w].pc = "done"]
    /\ UNCHANGED <<seqLast, preAgg, checkpoints, ckLock, sweeper, query, calc, scheduler>>

\* the statement fails (connection lost, context cancelled): nothing is stored
SaveEventFail(w) ==
    /\ writer[w].pc = "inserted"
    /\ writer' = [writer EXCEPT ![w] =
            [pc |-> "done", event |-> writer[w].event, ingestSeq |-> 0, err |-> "storage",
             payloadSize |-> writer[w].payloadSize]]
    /\ UNCHANGED <<events, seqLast, preAgg, checkpoints, ckLock, sweeper, query, calc, scheduler>>

\* the handler answers and the request ends
SaveEventReturn(w) ==
    /\ writer[w].pc = "done"
    /\ writer' = [writer EXCEPT ![w] = WriterIdle]
    /\ UNCHANGED <<events, seqLast, preAgg, checkpoints, ckLock, sweeper, query, calc, scheduler>>

(***************************************************************************)
(* Service.IngestHandler on any request                                    *)
(***************************************************************************)
SampleEvent == CHOOSE e \in EventInputs : e.id = "e1" /\ e.principal = "p1"

\* requests with a valid body, at and over the body cap, with an unreadable
\* body, with a body that is not JSON, with each required envelope field
\* missing, and naming a schema version whose schema accepts the data,
\* rejects the data or does not exist
IngestRequests ==
    { Request(e, maxBodySizeBytes - 1) : e \in EventInputs }
      \cup { Request(SampleEvent, maxBodySizeBytes),
             Request(SampleEvent, maxBodySizeBytes + 1),
             Request(SampleEvent, 2 * maxBodySizeBytes),
             [Request(SampleEvent, maxBodySizeBytes - 1) EXCEPT !.readErr = TRUE],
             [Request(SampleEvent, maxBodySizeBytes - 1) EXCEPT !.json = FALSE] }
      \cup { Request(e, maxBodySizeBytes - 1) :
               e \in { [SampleEvent EXCEPT !.id = ""],
                       [SampleEvent EXCEPT !.principal = ""],
                       [SampleEvent EXCEPT !.type = ""],
                       [SampleEvent EXCEPT !.occurredAt = ZeroTime],
                       [SampleEvent EXCEPT !.schemaVersion = 1],
                       [SampleEvent EXCEPT !.schemaVersion = 1, !.data = NoData],
                       [SampleEvent EXCEPT !.schemaVersion = 1, !.data = TextData("bytes")],
                       [SampleEvent EXCEPT !.schemaVersion = 999],
                       [SampleEvent EXCEPT !.schemaVersion = 1, !.type = "other.event"] } }

\* parseEvent, validateEvent and the INSERT of persistEvent; an error of
\* parseEvent or validateEvent ends the request before SaveEvent
IngestHandler(w) ==
    /\ writer[w].pc = "idle"
    /\ \E request \in IngestRequests :
          LET parsed == parseEvent(request)
              rejected(evt, err) ==
                  /\ writer' = [writer EXCEPT ![w] =
                         [pc |-> "done", event |-> evt, ingestSeq |-> 0, err |-> err,
                          payloadSize |-> parsed.payloadSize]]
                  /\ UNCHANGED seqLast
          IN  IF parsed.err # "nil" THEN rejected(NoEvent, parsed.err)
              ELSE IF validateEvent(parsed.evt) # "nil"
              THEN rejected(parsed.evt, validateEvent(parsed.evt))
              ELSE SaveEventStatement(w, parsed.evt, parsed.payloadSize)
    /\ UNCHANGED <<events, preAgg, checkpoints, ckLock, sweeper, query, calc, scheduler>>

(***************************************************************************)
(* RunBatchAggregationWithOptionsReturningCount and PreAggregateAdapter.Flush *)
(***************************************************************************)
\* the bucket label of the options of the iteration: that of the scheduler
\* main.go starts unless the run was called for another
IterationLabel(s) ==
    IF sweeper[s].args.bucketSize = "" THEN BucketLabel ELSE sweeper[s].args.bucketSize

\* preAggregateStore.ReadCheckpoint
IterationBegun(s) ==
    [SweeperIdle EXCEPT !.pc = "fetch",
                        !.cursor = ReadCheckpoint(checkpoints, BucketLabel),
                        !.last = sweeper[s].last]

SweepReadCheckpoint(s) ==
    /\ sweeper[s].pc = "idle"
    /\ sweeper' = [sweeper EXCEPT ![s] = IterationBegun(s)]
    /\ UNCHANGED <<events, seqLast, writer, preAgg, checkpoints, ckLock, query, calc, scheduler>>

\* a fetch that hands every batch, the empty one too, to the fold and to Flush
FetchAlwaysFlushes(s, limit) ==
    /\ sweeper[s].pc = "fetch"
    /\ sweeper' = [sweeper EXCEPT
                      ![s].batch = RetrieveEventsAfterCursor(events, sweeper[s].cursor, limit),
                      ![s].pc = "flush"]

\* eventStore.RetrieveEventsAfterCursor; an empty batch returns (0, nil)
Fetch(s, limit) ==
    /\ sweeper[s].pc = "fetch"
    /\ LET batch == RetrieveEventsAfterCursor(events, sweeper[s].cursor, limit)
       IN  sweeper' = [sweeper EXCEPT ![s].batch = batch,
                                      ![s].pc = IF batch = <<>> THEN "returned" ELSE "flush"]

SweepFetch(s) ==
    /\ Fetch(s, BatchSize)
    /\ UNCHANGED <<events, seqLast, writer, preAgg, checkpoints, ckLock, query, calc, scheduler>>

\* the rules argument of the run: those of the configuration, unless the
\* caller of the batch job passed others
RunRules == IF calc.pc = "rules" THEN calc.rules ELSE Rules

\* the arguments of the call of Flush: those of the iteration, or those of a
\* direct call
Aggregates(s) ==
    IF sweeper[s].args.direct THEN sweeper[s].args.aggregates
    ELSE buildPreAggregatesConcurrently(sweeper[s].batch, toCompiledRuleMap(RunRules),
                                        JobParameter(IterationLabel(s)))

\* a new cursor taken from the first event of the batch
NewCursorFirst(s) ==
    IF sweeper[s].args.direct THEN sweeper[s].args.cursor
    ELSE sweeper[s].batch[1].seq

\* a new cursor one past the last event of the batch
NewCursorPastBatch(s) ==
    IF sweeper[s].args.direct THEN sweeper[s].args.cursor
    ELSE sweeper[s].batch[Len(sweeper[s].batch)].seq + 1

NewCursor(s) ==
    IF sweeper[s].args.direct THEN sweeper[s].args.cursor
    ELSE sweeper[s].batch[Len(sweeper[s].batch)].seq
FlushBucketArg(s) ==
    IF sweeper[s].args.direct THEN sweeper[s].args.bucketSize ELSE IterationLabel(s)

\* the bucket size of the call after its default
FlushLabel(s) == flushBucketSize(FlushBucketArg(s))

\* a row lock that is granted whoever holds the row
RowLockIgnored(label) == TRUE

\* FOR UPDATE, and the unique index for an insert: the statement waits while
\* another transaction holds the row
RowLockFree(label) == ckLock[label] = Nobody

\* BeginTx and querySelectCheckpointForUpdate: waits for the row lock, then
\* reads the durable cursor; sql.ErrNoRows when no committed row is there
FlushBegin(s) ==
    /\ sweeper[s].pc = "flush"
    /\ IF FlushLabel(s) \in DOMAIN checkpoints
       THEN /\ RowLockFree(FlushLabel(s))
            /\ ckLock' = [ckLock EXCEPT ![FlushLabel(s)] = s]
            /\ sweeper' = [sweeper EXCEPT ![s].pc = "locked",
                                          ![s].durableCursor = checkpoints[FlushLabel(s)],
                                          ![s].txPreAgg = preAgg,
                                          ![s].txCheckpoints = checkpoints]
       ELSE /\ sweeper' = [sweeper EXCEPT ![s].pc = "norows", ![s].noRows = TRUE]
            /\ UNCHANGED ckLock
    /\ UNCHANGED <<events, seqLast, writer, preAgg, checkpoints, query, calc, scheduler>>

\* queryInitCheckpointRow: does nothing on a committed row, waits for the
\* transaction that inserted the row and has not ended, else inserts the row
\* at 0 and holds it
FlushInitRow(s) ==
    /\ sweeper[s].pc = "norows"
    /\ IF FlushLabel(s) \in DOMAIN checkpoints
       THEN /\ sweeper' = [sweeper EXCEPT ![s].pc = "initialised"]
            /\ UNCHANGED ckLock
       ELSE /\ RowLockFree(FlushLabel(s))
            /\ ckLock' = [ckLock EXCEPT ![FlushLabel(s)] = s]
            /\ sweeper' = [sweeper EXCEPT ![s].pc = "initialised",
                                          ![s].txCheckpoints =
                                              checkpoints @@ (FlushLabel(s) :> 0)]
    /\ UNCHANGED <<events, seqLast, writer, preAgg, checkpoints, query, calc, scheduler>>

\* querySelectCheckpointForUpdate after the init: the row this transaction
\* inserted, or the committed row once its lock is free
FlushReadInitialised(s) ==
    /\ sweeper[s].pc = "initialised"
    /\ IF ckLock[FlushLabel(s)] = s
       THEN /\ sweeper' = [sweeper EXCEPT ![s].pc = "locked",
                                          ![s].durableCursor =
                                              sweeper[s].txCheckpoints[FlushLabel(s)],
                                          ![s].txPreAgg = preAgg]
            /\ UNCHANGED ckLock
       ELSE /\ FlushLabel(s) \in DOMAIN checkpoints
            /\ RowLockFree(FlushLabel(s))
            /\ ckLock' = [ckLock EXCEPT ![FlushLabel(s)] = s]
            /\ sweeper' = [sweeper EXCEPT ![s].pc = "locked",
                                          ![s].durableCursor = checkpoints[FlushLabel(s)],
                                          ![s].txPreAgg = preAgg,
                                          ![s].txCheckpoints = checkpoints]
    /\ UNCHANGED <<events, seqLast, writer, preAgg, checkpoints, query, calc, scheduler>>

\* the stale-flush guard (return nil, the deferred Rollback ends the
\* transaction), else the upsert loop inside the transaction
FlushUpsert(s) ==
    /\ sweeper[s].pc = "locked"
    /\ IF IsStale(NewCursor(s), sweeper[s].durableCursor)
       THEN /\ sweeper' = [sweeper EXCEPT ![s].pc = "returned",
                                          ![s].flush = "skipped",
                                          ![s].count = Len(sweeper[s].batch),
                                          ![s].txPreAgg = EmptyAggregates,
                                          ![s].txCheckpoints = EmptyAggregates]
            /\ ckLock' = [ckLock EXCEPT ![FlushLabel(s)] = Nobody]
       ELSE /\ BucketMismatch(Aggregates(s), FlushBucketArg(s)) = {}
            /\ sweeper' = [sweeper EXCEPT ![s].pc = "upserted",
                                          ![s].txPreAgg =
                                              UpsertAll(preAgg, Aggregates(s), DOMAIN Aggregates(s))]
            /\ UNCHANGED ckLock
    /\ UNCHANGED <<events, seqLast, writer, preAgg, checkpoints, query, calc, scheduler>>

\* queryUpdateCheckpoint inside the transaction
FlushWriteCheckpoint(s) ==
    /\ sweeper[s].pc = "upserted"
    /\ sweeper' = [sweeper EXCEPT ![s].pc = "checkpointed",
                                  ![s].txCheckpoints = [@ EXCEPT ![FlushLabel(s)] = NewCursor(s)]]
    /\ UNCHANGED <<events, seqLast, writer, preAgg, checkpoints, ckLock, query, calc, scheduler>>

\* a commit that loses the checkpoint write of the transaction
CommittedCheckpointsLost(durable, tx) == durable

\* what a committed transaction leaves in the two tables
CommittedPreAgg(durable, tx) == tx
CommittedCheckpoints(durable, tx) == tx

\* tx.Commit: the upserts and the checkpoint become visible together
FlushCommit(s) ==
    /\ sweeper[s].pc = "checkpointed"
    /\ preAgg' = CommittedPreAgg(preAgg, sweeper[s].txPreAgg)
    /\ checkpoints' = CommittedCheckpoints(checkpoints, sweeper[s].txCheckpoints)
    /\ ckLock' = [ckLock EXCEPT ![FlushLabel(s)] = Nobody]
    /\ sweeper' = [sweeper EXCEPT ![s].pc = "returned",
                                  ![s].flush = "committed",
                                  ![s].count = Len(sweeper[s].batch),
                                  ![s].txPreAgg = EmptyAggregates,
                                  ![s].txCheckpoints = EmptyAggregates]
    /\ UNCHANGED <<events, seqLast, writer, query, calc, scheduler>>

\* an abort that leaves the statements of the transaction in place
RolledBackKeepsWrites(durable, tx) == tx

\* what an aborted transaction leaves in a table
RolledBack(durable, tx) == durable

\* the upsert loop reaches a key of another bucket size, after the upserts
\* of the keys the map handed out before it: Flush returns the mismatch
\* error and the deferred Rollback ends the transaction
FlushBucketMismatch(s) ==
    /\ sweeper[s].pc = "locked"
    /\ ~IsStale(NewCursor(s), sweeper[s].durableCursor)
    /\ BucketMismatch(Aggregates(s), FlushBucketArg(s)) # {}
    /\ \E before \in SUBSET (DOMAIN Aggregates(s)
                                \ BucketMismatch(Aggregates(s), FlushBucketArg(s))) :
          preAgg' = RolledBack(preAgg, UpsertAll(preAgg, Aggregates(s), before))
    /\ checkpoints' = RolledBack(checkpoints, sweeper[s].txCheckpoints)
    /\ ckLock' = [ckLock EXCEPT ![FlushLabel(s)] = Nobody]
    /\ sweeper' = [sweeper EXCEPT ![s].pc = "returned",
                                  ![s].err = "bucket mismatch",
                                  ![s].flush = "aborted",
                                  ![s].txPreAgg = EmptyAggregates,
                                  ![s].txCheckpoints = EmptyAggregates]
    /\ UNCHANGED <<events, seqLast, writer, query, calc, scheduler>>

\* the keys and states a caller of Flush may pass
FlushKey(bucketSize, windowStart) ==
    [partitionID |-> PartitionOf["p1"], principalID |-> "p1",
     ruleName |-> "count_api_requests", bucketSize |-> bucketSize,
     windowStart |-> windowStart]

FlushStateOf(operator, n, lastEventID, ruleFingerprint) ==
    [operator |-> operator, value |-> n, eventCount |-> n, lastEventID |-> lastEventID,
     ruleFingerprint |-> ruleFingerprint, updatedAt |-> n * BucketSeconds]

FlushState(n) == FlushStateOf(OpCount, n, "e1", "fp-count")


\* calls of Flush: keys of the bucket size of the call, of the empty bucket
\* size, of another bucket size, and of two bucket sizes in one map
FlushInputs ==
    { [direct |-> TRUE, aggregates |-> a, cursor |-> c, bucketSize |-> b] :
        a \in { (FlushKey("1m", 0) :> FlushState(1)),
                (FlushKey("", 0) :> FlushState(1)),
                (FlushKey("10m", 0) :> FlushState(1)),
                (FlushKey("1m", 0) :> FlushState(1))
                    @@ (FlushKey("10m", BucketSeconds) :> FlushState(2)),
                (FlushKey("1m", 0) :> FlushState(1))
                    @@ (FlushKey("1m", BucketSeconds) :> FlushState(2)) },
        c \in 1..MaxSeq,
        b \in {"1m", ""} }

\* calls of Flush on one row: every operator, two values, events and
\* fingerprints
FlushMergeInputs ==
    { [direct |-> TRUE, aggregates |-> a, cursor |-> c, bucketSize |-> "1m"] :
        a \in { (FlushKey("1m", 0) :> FlushStateOf(op, n, id[n], fp[n])) :
                   op \in {OpCount, OpSum, OpMin, OpMax}, n \in {1, 2},
                   id \in {<<"e1", "e2">>}, fp \in {<<"fp-a", "fp-b">>} },
        c \in 1..MaxSeq }

\* a caller calls PreAggregateAdapter.Flush
FlushCall(s, inputs) ==
    /\ sweeper[s].pc = "idle"
    /\ \E a \in inputs :
          sweeper' = [sweeper EXCEPT ![s] = [SweeperIdle EXCEPT !.pc = "flush", !.args = a]]
    /\ UNCHANGED <<events, seqLast, writer, preAgg, checkpoints, ckLock, query, calc, scheduler>>

FlushCalled(s) == FlushCall(s, FlushInputs)

\* calls of Flush for a bucket size without a checkpoint row
FlushInitInputs ==
    { [direct |-> TRUE, aggregates |-> (FlushKey("10m", 0) :> FlushState(n)),
       cursor |-> c, bucketSize |-> "10m"] : n \in {1, 2}, c \in 1..MaxSeq }

FlushInitCalled(s) == FlushCall(s, FlushInitInputs)

FlushMergeCalled(s) == FlushCall(s, FlushMergeInputs)

\* an error from the fetch or from any statement of Flush, or a crash of the
\* process: the open transaction is rolled back and the iteration returns an error
SweepFail(s) ==
    /\ sweeper[s].pc \in {"fetch", "flush", "norows", "initialised", "locked", "upserted",
                          "checkpointed"}
    /\ preAgg' = IF sweeper[s].pc \in {"locked", "upserted", "checkpointed"}
                 THEN RolledBack(preAgg, sweeper[s].txPreAgg) ELSE preAgg
    /\ checkpoints' = IF sweeper[s].pc \in {"locked", "upserted", "checkpointed"}
                      THEN RolledBack(checkpoints, sweeper[s].txCheckpoints) ELSE checkpoints
    /\ ckLock' = IF ckLock[FlushLabel(s)] = s
                 THEN [ckLock EXCEPT ![FlushLabel(s)] = Nobody] ELSE ckLock
    /\ sweeper' = [sweeper EXCEPT ![s] =
            [SweeperIdle EXCEPT !.pc = "returned", !.err = "error",
                                !.flush = IF sweeper[s].pc \in {"upserted", "checkpointed"}
                                          THEN "aborted" ELSE "none",
                                !.cursor = sweeper[s].cursor, !.batch = sweeper[s].batch,
                                !.last = sweeper[s].last, !.args = sweeper[s].args]]
    /\ UNCHANGED <<events, seqLast, writer, query, calc, scheduler>>

\* the iteration has returned; the scheduler (or a restarted process) may run the next
IterationEnded(s) ==
    [SweeperIdle EXCEPT !.last =
        CASE sweeper[s].err = "error" ->
                [outcome |-> "failed", cursor |-> sweeper[s].cursor,
                 seqs |-> {sweeper[s].batch[i].seq : i \in SeqIndices(sweeper[s].batch)}]
          [] OTHER -> NoLast]

SweepReturn(s) ==
    /\ sweeper[s].pc = "returned"
    /\ sweeper' = [sweeper EXCEPT ![s] = IterationEnded(s)]
    /\ UNCHANGED <<events, seqLast, writer, preAgg, checkpoints, ckLock, query, calc, scheduler>>

(***************************************************************************)
(* Scheduler.Start and Scheduler.drainBacklog of the one scheduler         *)
(***************************************************************************)
\* Start returns after the drain of every branch of its select
AfterDrainReturns(call) == "returned"

\* Start never returns
AfterDrainSelects(call) == "select"

\* where Start goes when drainBacklog returns: the Done branch returns nil
AfterDrain(call) == IF call = "final" THEN "returned" ELSE "select"

\* a loop that goes on after every iteration without an error
ContinueDrainAlways(eventsProcessed, batchSize) == TRUE

\* a loop that stops after its first iteration
ContinueDrainNever(eventsProcessed, batchSize) == FALSE

\* drainBacklog goes on unless eventsProcessed < s.opts.BatchSize
ContinueDrain(eventsProcessed, batchSize) == ~(eventsProcessed < batchSize)

\* the Done channel of the context the running call of drainBacklog was given
DrainCtxDone ==
    IF scheduler.call = "final" THEN scheduler.shutdownDone ELSE scheduler.ctxDone

\* a call of drainBacklog begins: batchCount := 0
DrainCalled(call) ==
    [scheduler EXCEPT !.pc = "drain", !.call = call, !.batchCount = 0,
                      !.exit = "none", !.logSize = Cardinality(events),
                      !.shutdownDone = FALSE,
                      !.finals = IF call = "final" THEN @ + 1 ELSE @,
                      !.tick = IF call = "tick" THEN FALSE ELSE @]

\* a call of drainBacklog returns
DrainReturned(exit, batchCount) ==
    [scheduler EXCEPT !.pc = AfterDrain(scheduler.call), !.exit = exit,
                      !.batchCount = batchCount]

\* Start: the ticker is created and the initial drain is called
SchedulerStart ==
    /\ scheduler.pc = "new"
    /\ scheduler' = DrainCalled("initial")
    /\ UNCHANGED <<events, seqLast, writer, preAgg, checkpoints, ckLock, sweeper, query, calc>>

\* case <-ticker.C
SelectTick ==
    /\ scheduler.pc = "select"
    /\ scheduler.tick
    /\ scheduler' = DrainCalled("tick")
    /\ UNCHANGED <<events, seqLast, writer, preAgg, checkpoints, ckLock, sweeper, query, calc>>

\* case <-ctx.Done(): shutdownCtx is made and the final drain is called
SelectDone ==
    /\ scheduler.pc = "select"
    /\ scheduler.ctxDone
    /\ scheduler' = DrainCalled("final")
    /\ UNCHANGED <<events, seqLast, writer, preAgg, checkpoints, ckLock, sweeper, query, calc>>

\* the loop condition fails: the safety limit is reached
DrainCapReached ==
    /\ scheduler.pc = "drain"
    /\ ~(scheduler.batchCount < maxConsecutiveBatches)
    /\ scheduler' = DrainReturned("cap", scheduler.batchCount)
    /\ UNCHANGED <<events, seqLast, writer, preAgg, checkpoints, ckLock, sweeper, query, calc>>

\* case <-ctx.Done() at the top of the loop body
DrainInterrupted ==
    /\ scheduler.pc = "drain"
    /\ scheduler.batchCount < maxConsecutiveBatches
    /\ DrainCtxDone
    /\ scheduler' = DrainReturned("cancelled", scheduler.batchCount)
    /\ UNCHANGED <<events, seqLast, writer, preAgg, checkpoints, ckLock, sweeper, query, calc>>

\* default: RunBatchAggregationWithOptionsReturningCount is called and reads
\* the checkpoint
DrainRunBatch ==
    /\ scheduler.pc = "drain"
    /\ scheduler.batchCount < maxConsecutiveBatches
    /\ ~DrainCtxDone
    /\ sweeper["s1"].pc = "idle"
    /\ sweeper' = [sweeper EXCEPT !["s1"] = IterationBegun("s1")]
    /\ scheduler' = [scheduler EXCEPT !.pc = "iterating"]
    /\ UNCHANGED <<events, seqLast, writer, preAgg, checkpoints, ckLock, query, calc>>

\* eventStore.RetrieveEventsAfterCursor with the batch size of this scheduler
DrainFetch ==
    /\ scheduler.pc = "iterating"
    /\ Fetch("s1", scheduler.batchSize)
    /\ UNCHANGED <<events, seqLast, writer, preAgg, checkpoints, ckLock, query, calc, scheduler>>

\* the iteration returned (eventsProcessed, err): return on an error, count
\* the batch, return when it was short, else go back to the loop condition
DrainBatchReturned ==
    /\ scheduler.pc = "iterating"
    /\ sweeper["s1"].pc = "returned"
    /\ sweeper' = [sweeper EXCEPT !["s1"] = IterationEnded("s1")]
    /\ scheduler' =
          IF sweeper["s1"].err # "nil"
          THEN DrainReturned("error", scheduler.batchCount)
          ELSE IF ContinueDrain(sweeper["s1"].count, scheduler.batchSize)
          THEN [scheduler EXCEPT !.pc = "drain", !.batchCount = @ + 1]
          ELSE DrainReturned("drained", scheduler.batchCount + 1)
    /\ UNCHANGED <<events, seqLast, writer, preAgg, checkpoints, ckLock, query, calc>>

\* the runtime puts a tick into ticker.C, which holds one tick
TickerFires ==
    /\ scheduler.pc \in {"select", "drain", "iterating"}
    /\ ~scheduler.tick
    /\ scheduler' = [scheduler EXCEPT !.tick = TRUE]
    /\ UNCHANGED <<events, seqLast, writer, preAgg, checkpoints, ckLock, sweeper, query, calc>>

\* main cancels ctx
ContextCancelled ==
    /\ scheduler.pc # "returned"
    /\ ~scheduler.ctxDone
    /\ scheduler' = [scheduler EXCEPT !.ctxDone = TRUE]
    /\ UNCHANGED <<events, seqLast, writer, preAgg, checkpoints, ckLock, sweeper, query, calc>>

\* the 30 seconds of shutdownCtx pass while the final drain runs
ShutdownDeadline ==
    /\ scheduler.call = "final"
    /\ scheduler.pc \in {"drain", "iterating"}
    /\ ~scheduler.shutdownDone
    /\ scheduler' = [scheduler EXCEPT !.shutdownDone = TRUE]
    /\ UNCHANGED <<events, seqLast, writer, preAgg, checkpoints, ckLock, sweeper, query, calc>>

\* the steps of Start and drainBacklog
SchedulerSteps ==
    \/ SchedulerStart
    \/ SelectTick
    \/ SelectDone
    \/ DrainCapReached
    \/ DrainInterrupted
    \/ DrainRunBatch
    \/ DrainBatchReturned

\* the steps of the iteration the scheduler called
IterationSteps ==
    \/ DrainFetch
    \/ FlushBegin("s1")
    \/ FlushUpsert("s1")
    \/ FlushWriteCheckpoint("s1")
    \/ FlushCommit("s1")
    \/ SweepFail("s1")

(***************************************************************************)
(* Service.QueryAggregates, statement by statement                         *)
(***************************************************************************)
InScope(req, rule) ==
    { e.seq : e \in { r \in events : /\ r.principal = req.principal
                                      /\ r.type = rule.sourceEvent
                                      /\ r.occurredAt >= req.start
                                      /\ r.occurredAt < req.end } }

\* normalizeAndValidate and the rule lookup; a rejected request reads no store
QueryStart ==
    /\ query.pc = "idle"
    /\ \E request \in QueryRequests :
          LET checked == normalizeAndValidate(request)
          IN  IF checked.err # "nil" \/ checked.req.rule \notin DOMAIN ServiceRules
              THEN query' = [QueryIdle EXCEPT !.pc = "done", !.req = checked.req,
                                              !.err = "ErrInvalidQuery"]
              ELSE query' = [QueryIdle EXCEPT
                                !.pc = "load",
                                !.req = checked.req,
                                !.bucketSize =
                                    Head(bucketCandidatesByGranularity(checked.req.granularity)),
                                !.atStart = InScope(checked.req, ServiceRules[checked.req.rule])]
    /\ UNCHANGED <<events, seqLast, writer, preAgg, checkpoints, ckLock, sweeper, calc, scheduler>>

\* loadPreAggregates with a store that has QueryRangeWithCheckpoint
QueryLoadSnapshot ==
    /\ query.pc = "load"
    /\ LET got == QueryRangeWithCheckpoint(preAgg, checkpoints, query.req.principal,
                      query.req.rule, query.bucketSize, query.req.start, query.req.end)
       IN  query' = [query EXCEPT !.pc = "tail",
                                  !.path = "snapshot",
                                  !.aggregates = got.aggregates,
                                  !.checkpoint = got.checkpoint,
                                  !.scan = ScanFrom(got.checkpoint)]
    /\ UNCHANGED <<events, seqLast, writer, preAgg, checkpoints, ckLock, sweeper, calc, scheduler>>

\* loadPreAggregates with a store that has QueryRange only: first the aggregates
QueryLoadRange ==
    /\ query.pc = "load"
    /\ query' = [query EXCEPT !.pc = "checkpoint",
                              !.path = "serial",
                              !.aggregates =
                                  QueryRange(preAgg, query.req.principal, query.req.rule,
                                             query.bucketSize, query.req.start, query.req.end)]
    /\ UNCHANGED <<events, seqLast, writer, preAgg, checkpoints, ckLock, sweeper, calc, scheduler>>

\* ... then the checkpoint, in a statement of its own
QueryLoadCheckpoint ==
    /\ query.pc = "checkpoint"
    /\ LET checkpoint == ReadCheckpoint(checkpoints, query.bucketSize)
       IN  query' = [query EXCEPT !.pc = "tail",
                                  !.checkpoint = checkpoint,
                                  !.scan = ScanFrom(checkpoint)]
    /\ UNCHANGED <<events, seqLast, writer, preAgg, checkpoints, ckLock, sweeper, calc, scheduler>>

\* one fetch of the tail scan; the last one is followed by merge and roll-up
QueryTailScan ==
    /\ query.pc = "tail"
    /\ LET rule == ServiceRules[query.req.rule]
           next == scanIteration(events, query.scan, query.req, rule,
                                 parseBucketSize(query.bucketSize))
       IN  CASE rule.operator \notin Operators \/ next.status = "error" ->
                   query' = [query EXCEPT !.pc = "done", !.scan = next,
                                          !.err = "query raw event tail"]
             [] rule.operator \in Operators /\ next.status = "more" ->
                   query' = [query EXCEPT !.scan = next]
             [] rule.operator \in Operators /\ next.status = "done" ->
                   \E now \in Clock :
                       query' = [query EXCEPT
                                    !.pc = "done",
                                    !.scan = next,
                                    !.resp = Respond(query.req, rule, query.aggregates,
                                                     SortedBuckets(next.buckets),
                                                     query.bucketSize, now)]
    /\ UNCHANGED <<events, seqLast, writer, preAgg, checkpoints, ckLock, sweeper, calc, scheduler>>

\* a statement of the read path fails
QueryFail ==
    /\ query.pc \in {"load", "checkpoint", "tail"}
    /\ query' = [query EXCEPT !.pc = "done", !.err = "store"]
    /\ UNCHANGED <<events, seqLast, writer, preAgg, checkpoints, ckLock, sweeper, calc, scheduler>>

\* the handler answers
QueryReturn ==
    /\ query.pc = "done"
    /\ query' = QueryIdle
    /\ UNCHANGED <<events, seqLast, writer, preAgg, checkpoints, ckLock, sweeper, calc, scheduler>>

QueryNext ==
    \/ QueryStart
    \/ QueryLoadSnapshot
    \/ QueryLoadRange
    \/ QueryLoadCheckpoint
    \/ QueryTailScan
    \/ QueryFail
    \/ QueryReturn

WriterNext(w) ==
    \/ SaveEventExec(w)
    \/ SaveEventCommit(w)
    \/ SaveEventFail(w)
    \/ SaveEventReturn(w)

SweeperNext(s) ==
    \/ SweepReadCheckpoint(s)
    \/ SweepFetch(s)
    \/ FlushBegin(s)
    \/ FlushUpsert(s)
    \/ FlushWriteCheckpoint(s)
    \/ FlushCommit(s)
    \/ SweepFail(s)
    \/ SweepReturn(s)

\* concurrent ingestion requests and the one scheduler of main.go
Next ==
    \/ \E w \in Writers : WriterNext(w)
    \/ \E s \in {"s1"} : SweeperNext(s)

Spec == Init /\ [][Next]_vars

\* one ingestion request at a time and two sweeper instances on the same bucket size
NextSweepers ==
    \/ \E w \in {"w1"} : WriterNext(w)
    \/ \E s \in Sweepers : SweeperNext(s)

SpecSweepers == Init /\ [][NextSweepers]_vars

\* one ingestion request at a time, the one scheduler and one projection request
NextQuery ==
    \/ \E w \in {"w1"} : WriterNext(w)
    \/ \E s \in {"s1"} : SweeperNext(s)
    \/ QueryNext

SpecQuery == Init /\ [][NextQuery]_vars

\* one ingestion request at a time and the one scheduler, whose iterations
\* may fail or die at any step and are run again
NextSerial ==
    \/ \E w \in {"w1"} : WriterNext(w)
    \/ \E s \in {"s1"} : SweeperNext(s)

SpecSerial == Init /\ [][NextSerial]_vars

\* one ingestion request at a time and Scheduler.Start with its ticker and
\* its context
NextScheduler ==
    \/ \E w \in {"w1"} : WriterNext(w)
    \/ SchedulerSteps
    \/ IterationSteps
    \/ TickerFires
    \/ ContextCancelled
    \/ ShutdownDeadline

SpecScheduler == Init /\ [][NextScheduler]_vars

\* NewScheduler with the batch sizes the configuration may give it
InitDrain ==
    /\ events = {}
    /\ seqLast = 0
    /\ writer = [w \in Writers |-> WriterIdle]
    /\ preAgg = EmptyAggregates
    /\ checkpoints = (defaultBucketSize :> 0)
    /\ ckLock = [b \in BucketLabels |-> Nobody]
    /\ sweeper = [s \in Sweepers |-> SweeperIdle]
    /\ query = QueryIdle
    /\ calc = NoCalc
    /\ scheduler \in {[SchedulerNew EXCEPT !.batchSize = b] : b \in DrainBatchSize..BatchSize}

SpecDrain == InitDrain /\ [][NextScheduler]_vars

\* the statements of an iteration whose guard does not read the batch; an
\* iteration that is not over can always take one of them
StatementReturns ==
    \/ DrainFetch
    \/ FlushBegin("s1")
    \/ FlushWriteCheckpoint("s1")
    \/ FlushCommit("s1")
    \/ SweepFail("s1")

\* the goroutine of Start is scheduled, no statement of an iteration blocks
\* for ever, and a select with a ready Done case takes it sooner or later
SpecSchedulerLive ==
    /\ SpecScheduler
    /\ WF_vars(SchedulerStart \/ DrainCapReached \/ DrainInterrupted
                 \/ DrainRunBatch \/ DrainBatchReturned)
    /\ WF_vars(StatementReturns)
    /\ SF_vars(SelectDone)

\* two callers of PreAggregateAdapter.Flush with arguments of every kind
FlushNext(s) ==
    \/ FlushCalled(s)
    \/ FlushBegin(s)
    \/ FlushUpsert(s)
    \/ FlushBucketMismatch(s)
    \/ FlushWriteCheckpoint(s)
    \/ FlushCommit(s)
    \/ SweepFail(s)
    \/ SweepReturn(s)

NextFlush == \E s \in Sweepers : FlushNext(s)

SpecFlush == Init /\ [][NextFlush]_vars

\* two callers of PreAggregateAdapter.Flush on one row of the bucket size
\* of the call
FlushMergeNext(s) ==
    \/ FlushMergeCalled(s)
    \/ FlushBegin(s)
    \/ FlushUpsert(s)
    \/ FlushWriteCheckpoint(s)
    \/ FlushCommit(s)
    \/ SweepFail(s)
    \/ SweepReturn(s)

NextFlushMerge == \E s \in Sweepers : FlushMergeNext(s)

SpecFlushMerge == Init /\ [][NextFlushMerge]_vars

\* two callers of PreAggregateAdapter.Flush for a bucket size whose
\* checkpoint row is not there at the start
FlushInitNext(s) ==
    \/ FlushInitCalled(s)
    \/ FlushBegin(s)
    \/ FlushInitRow(s)
    \/ FlushReadInitialised(s)
    \/ FlushUpsert(s)
    \/ FlushWriteCheckpoint(s)
    \/ FlushCommit(s)
    \/ SweepFail(s)
    \/ SweepReturn(s)

NextFlushInit == \E s \in Sweepers : FlushInitNext(s)

SpecFlushInit == Init /\ [][NextFlushInit]_vars

\* RunBatchAggregationWithOptions called for a bucket label:
\* preAggregateStore.ReadCheckpoint(ctx, opts.BucketLabel)
RunBatchLabelled(s) ==
    /\ sweeper[s].pc = "idle"
    /\ \E label \in BucketLabels :
          sweeper' = [sweeper EXCEPT ![s] =
                         [SweeperIdle EXCEPT !.pc = "fetch",
                                             !.cursor = ReadCheckpoint(checkpoints, label),
                                             !.args = [NoFlushArgs EXCEPT !.bucketSize = label]]]
    /\ UNCHANGED <<events, seqLast, writer, preAgg, checkpoints, ckLock, query, calc, scheduler>>

LabelledNext(s) ==
    \/ RunBatchLabelled(s)
    \/ SweepFetch(s)
    \/ FlushBegin(s)
    \/ FlushInitRow(s)
    \/ FlushReadInitialised(s)
    \/ FlushUpsert(s)
    \/ FlushWriteCheckpoint(s)
    \/ FlushCommit(s)
    \/ SweepFail(s)
    \/ SweepReturn(s)

\* one ingestion request at a time and runs of the batch job for the two
\* bucket labels, one run at a time
NextLabels ==
    \/ \E w \in {"w1"} : WriterNext(w)
    \/ \E s \in {"s1"} : LabelledNext(s)

SpecLabels == Init /\ [][NextLabels]_vars

\* rules as a caller of the batch job may pass them: those of the
\* configuration, and the same rules with an operator that is not registered
UnregisteredOperatorRules == [i \in SeqIndices(Rules) |-> [Rules[i] EXCEPT !.operator = "avg"]]

InitRunRules ==
    /\ events = {}
    /\ seqLast = 0
    /\ writer = [w \in Writers |-> WriterIdle]
    /\ preAgg = EmptyAggregates
    /\ checkpoints = (defaultBucketSize :> 0)
    /\ ckLock = [b \in BucketLabels |-> Nobody]
    /\ sweeper = [s \in Sweepers |-> SweeperIdle]
    /\ query = QueryIdle
    /\ calc \in {[pc |-> "rules", rules |-> r] : r \in {Rules, UnregisteredOperatorRules}}
    /\ scheduler = SchedulerNew

\* one ingestion request at a time and the iterations of the batch job with
\* the rules it was given
NextRunRules ==
    \/ \E w \in {"w1"} : WriterNext(w)
    \/ \E s \in {"s1"} : SweeperNext(s)

SpecRunRules == InitRunRules /\ [][NextRunRules]_vars

\* concurrent ingestion requests of every kind
IngestNext(w) ==
    \/ IngestHandler(w)
    \/ SaveEventCommit(w)
    \/ SaveEventFail(w)
    \/ SaveEventReturn(w)

NextIngest == \E w \in Writers : IngestNext(w)

SpecIngest == Init /\ [][NextIngest]_vars

(***************************************************************************)
(* The roll-ups of the projection service on merged buckets                *)
(***************************************************************************)
\* window starts of one-minute buckets: two in one hour, one in the next
\* hour, one in the next day
RollupWindows == {0, BucketSeconds, HourSeconds, DaySeconds}

\* [start, end) of the requests: two minutes, two hours, a range that
\* starts inside a minute and ends inside the second day, and two ranges
\* that end on a day boundary, of UTC and of +02:00
RollupRanges ==
    { [start |-> 0, end |-> 2 * BucketSeconds],
      [start |-> 0, end |-> 2 * HourSeconds],
      [start |-> BucketSeconds \div 2, end |-> DaySeconds + HourSeconds],
      [start |-> HourSeconds + BucketSeconds \div 2, end |-> DaySeconds],
      [start |-> HourSeconds + BucketSeconds \div 2, end |-> DaySeconds - 2 * HourSeconds] }

\* the merged state of a window under an operator
MergedState(operator, windowStart) ==
    [windowStart     |-> windowStart,
     operator        |-> operator,
     value           |-> CASE operator = OpCount ->
                                    IF windowStart = BucketSeconds THEN 2 ELSE 1
                           [] operator # OpCount /\ windowStart = 0 -> 5
                           [] operator # OpCount /\ windowStart = BucketSeconds -> 3
                           [] operator # OpCount /\ windowStart = HourSeconds -> 8
                           [] OTHER -> 2,
     eventCount      |-> IF windowStart = BucketSeconds THEN 2 ELSE 1,
     lastEventID     |-> "e1",
     ruleFingerprint |-> "fp"]

\* what mergeAggregateStates hands to rollupForGranularity: states of one
\* operator, sorted by window start, their windows those of events in range
RollupInputs ==
    UNION { { [pc |-> "input", operator |-> op, start |-> r.start, end |-> r.end, zone |-> z,
               aggregates |-> SortByWindow({MergedState(op, w) : w \in ws})] :
                  op \in Operators, z \in Zones,
                  ws \in SUBSET {w \in RollupWindows :
                                    w >= BucketFor(r.start, BucketSeconds) /\ w < r.end} } :
            r \in RollupRanges }

InitRollup ==
    /\ events = {}
    /\ seqLast = 0
    /\ writer = [w \in Writers |-> WriterIdle]
    /\ preAgg = EmptyAggregates
    /\ checkpoints = (defaultBucketSize :> 0)
    /\ ckLock = [b \in BucketLabels |-> Nobody]
    /\ sweeper = [s \in Sweepers |-> SweeperIdle]
    /\ query = QueryIdle
    /\ calc \in RollupInputs
    /\ scheduler = SchedulerNew

\* rollupForGranularity for each granularity on the same buckets and range
Rollup ==
    /\ calc.pc = "input"
    /\ LET roll(granularity) ==
               rollupForGranularity(calc.aggregates, granularity, BucketSeconds,
                                    calc.start, calc.end, calc.zone)
       IN  calc' = [pc |-> "done", operator |-> calc.operator, start |-> calc.start,
                    end |-> calc.end, zone |-> calc.zone, aggregates |-> calc.aggregates,
                    total |-> roll("total"), minutes |-> roll("1m"),
                    hours |-> roll("1h"), days |-> roll("1d")]
    /\ UNCHANGED <<events, seqLast, writer, preAgg, checkpoints, ckLock, sweeper, query, scheduler>>

NextRollup == Rollup

SpecRollup == InitRollup /\ [][NextRollup]_vars

(***************************************************************************)
(* The response of QueryAggregates on loaded buckets                       *)
(***************************************************************************)
\* requests that end inside the second window, at its end and after both
\* readings of the clock; the buckets of the pre-aggregate read and of the
\* tail; two readings of the clock, the second not before the first
RespondInputs ==
    { c \in [pc : {"request"},
             req : {QueryRequest("p1", "count_api_requests", "total", 0, end) :
                        end \in {BucketSeconds + BucketSeconds \div 2,
                                 2 * BucketSeconds, 4 * BucketSeconds}},
             base : {SortByWindow({MergedState(OpCount, w) : w \in ws}) :
                        ws \in SUBSET {0, BucketSeconds}},
             tail : {SortByWindow({MergedState(OpCount, w) : w \in ws}) :
                        ws \in SUBSET {0, BucketSeconds}},
             now : Clock,
             later : Clock] : c.later >= c.now }

InitRespond ==
    /\ events = {}
    /\ seqLast = 0
    /\ writer = [w \in Writers |-> WriterIdle]
    /\ preAgg = EmptyAggregates
    /\ checkpoints = (defaultBucketSize :> 0)
    /\ ckLock = [b \in BucketLabels |-> Nobody]
    /\ sweeper = [s \in Sweepers |-> SweeperIdle]
    /\ query = QueryIdle
    /\ calc \in RespondInputs
    /\ scheduler = SchedulerNew

\* QueryAggregates from the merge to the response
RespondCall ==
    /\ calc.pc = "request"
    /\ calc' = [pc |-> "responded", req |-> calc.req, base |-> calc.base,
                tail |-> calc.tail, now |-> calc.now, later |-> calc.later,
                resp |-> RespondAt(calc.req, RuleNamed(calc.req.rule), calc.base, calc.tail,
                                   defaultBucketSize, calc.now, calc.later)]
    /\ UNCHANGED <<events, seqLast, writer, preAgg, checkpoints, ckLock, sweeper, query, scheduler>>

NextRespond == RespondCall

SpecRespond == InitRespond /\ [][NextRespond]_vars

(***************************************************************************)
(* The tail scan of loadRawEvents on a log                                 *)
(***************************************************************************)
\* the events a log of the tail scan may hold: two of the principal in one
\* window, one in the next window, one of another type and one of another
\* principal
TailScanEvents ==
    { e \in EventInputs : \/ e.principal = "p1"
                          \/ (e.principal = "principal-567" /\ e.id = "e1") }

\* logs of up to three events with the ingest_seq values 1, 2, 3 in any order
TailScanLogs ==
    { {EventRow(order[i], i) : i \in 1..Len(order)} :
        order \in { o \in UNION {[1..n -> TailScanEvents] : n \in 0..3} :
                        \A i, j \in 1..Len(o) : i # j => o[i] # o[j] } }

TailScanInputs ==
    [pc : {"scan"},
     rows : TailScanLogs,
     checkpoint : 0..2,
     req : {QueryRequest("p1", "count_api_requests", "total", 0, 2 * BucketSeconds),
            QueryRequest("p1", "sum_bytes", "total", 0, BucketSeconds)}]

InitTailScan ==
    /\ events = {}
    /\ seqLast = 0
    /\ writer = [w \in Writers |-> WriterIdle]
    /\ preAgg = EmptyAggregates
    /\ checkpoints = (defaultBucketSize :> 0)
    /\ ckLock = [b \in BucketLabels |-> Nobody]
    /\ sweeper = [s \in Sweepers |-> SweeperIdle]
    /\ query = QueryIdle
    /\ calc \in TailScanInputs
    /\ scheduler = SchedulerNew

\* loadRawEvents: scanScopedRawEvents from the checkpoint with the fold as consumer
TailScanCall ==
    /\ calc.pc = "scan"
    /\ calc' = [pc |-> "scanned", rows |-> calc.rows, checkpoint |-> calc.checkpoint,
                req |-> calc.req,
                scan |-> scanScopedRawEvents(calc.rows, ScanFrom(calc.checkpoint), calc.req,
                                             RuleNamed(calc.req.rule), BucketSeconds)]
    /\ UNCHANGED <<events, seqLast, writer, preAgg, checkpoints, ckLock, sweeper, query, scheduler>>

NextTailScan == TailScanCall

SpecTailScan == InitTailScan /\ [][NextTailScan]_vars

(***************************************************************************)
(* mergeAggregateStates on the two loads of a request                      *)
(***************************************************************************)
\* a state of a window as one of the two loads returns it
LoadedState(operator, windowStart, value, eventCount, lastEventID) ==
    [windowStart |-> windowStart, operator |-> operator, value |-> value,
     eventCount |-> eventCount, lastEventID |-> lastEventID,
     ruleFingerprint |-> "fp"]

\* pre-aggregates and tails over three windows, every operator; the values
\* of the pre-aggregates lie below or above those of the tail
MergeInputs ==
    { [pc |-> "merge", operator |-> op,
       base |-> SortByWindow({LoadedState(op, w, 3 * b, b, "e1") : w \in bws}),
       tail |-> SortByWindow({LoadedState(op, w, 4, 2, "e2") : w \in tws})] :
        op \in Operators, b \in {1, 2},
        bws \in SUBSET {0, BucketSeconds, 2 * BucketSeconds},
        tws \in SUBSET {0, BucketSeconds, 2 * BucketSeconds} }

InitMerge ==
    /\ events = {}
    /\ seqLast = 0
    /\ writer = [w \in Writers |-> WriterIdle]
    /\ preAgg = EmptyAggregates
    /\ checkpoints = (defaultBucketSize :> 0)
    /\ ckLock = [b \in BucketLabels |-> Nobody]
    /\ sweeper = [s \in Sweepers |-> SweeperIdle]
    /\ query = QueryIdle
    /\ calc \in MergeInputs
    /\ scheduler = SchedulerNew

\* QueryAggregates: merged := mergeAggregateStates(preAggregates, rawAggregates, operator)
MergeCall ==
    /\ calc.pc = "merge"
    /\ calc' = [pc |-> "merged", operator |-> calc.operator, base |-> calc.base,
                tail |-> calc.tail,
                merged |-> mergeAggregateStates(calc.base, calc.tail, calc.operator)]
    /\ UNCHANGED <<events, seqLast, writer, preAgg, checkpoints, ckLock, sweeper, query, scheduler>>

NextMerge == MergeCall

SpecMerge == InitMerge /\ [][NextMerge]_vars

(***************************************************************************)
(* Properties                                                              *)
(***************************************************************************)
WindowStarts == {BucketFor(c.occurredAt, BucketSeconds) : c \in ClientEvents}

\* every primary key of pre_aggregates the sweeper of the model can write
AllKeys ==
    { [partitionID |-> PartitionOf[p], principalID |-> p, ruleName |-> n,
       bucketSize |-> BucketLabel, windowStart |-> ws] :
          p \in Principals, n \in RuleNames, ws \in WindowStarts }

\* the committed events a pre-aggregate row stands for
MatchingEvents(k) ==
    { e \in events : /\ e.principal = k.principalID
                     /\ e.type = RuleNamed(k.ruleName).sourceEvent
                     /\ BucketFor(e.occurredAt, BucketSeconds) = k.windowStart }

DurableCount(k) == IF k \in DOMAIN preAgg THEN preAgg[k].eventCount ELSE 0

\* C1: at-most-once folding: no durable pre-aggregate row counts more events
\* than the log holds for its principal, rule and window, also with two
\* sweepers on the same bucket size.
AtMostOnceFolding ==
    \A k \in DOMAIN preAgg : preAgg[k].eventCount <= Cardinality(MatchingEvents(k))

\* C2: checkpoint invariant: with the durable cursor at N, every row of
\* pre_aggregates counts exactly the events of its key with ingest_seq <= N:
\* all of those are folded and none after N is.
CheckpointInvariant ==
    \A k \in AllKeys :
        DurableCount(k) =
            Cardinality({e \in MatchingEvents(k) :
                            e.seq <= ReadCheckpoint(checkpoints, BucketLabel)})

\* the reduction of an operator over the extracted field values of a set of events
RECURSIVE SumOver(_, _)
SumOver(evs, field) ==
    IF evs = {} THEN 0
    ELSE LET e == CHOOSE x \in evs : TRUE
         IN  ExtractDecimal(e.data, field) + SumOver(evs \ {e}, field)

ReductionOver(operator, field, evs) ==
    LET vals == {ExtractDecimal(e.data, field) : e \in evs}
    IN  CASE operator = OpCount -> Cardinality(evs)
          [] operator = OpSum -> SumOver(evs, field)
          [] operator = OpMin -> CHOOSE v \in vals : \A o \in vals : v <= o
          [] operator = OpMax -> CHOOSE v \in vals : \A o \in vals : v >= o

\* C11: pre-aggregate value correctness: with one sweeper, every row of
\* pre_aggregates holds the reduction of its rule's operator over the
\* extracted field values of exactly the events of its key with ingest_seq
\* at or below the checkpoint, event_count is their number, and a key with
\* no such event has no row.
PreAggregateValueCorrectness ==
    /\ DOMAIN preAgg \subseteq AllKeys
    /\ \A k \in AllKeys :
          LET rule         == RuleNamed(k.ruleName)
              contributing == {e \in MatchingEvents(k) :
                                  e.seq <= ReadCheckpoint(checkpoints, BucketLabel)}
          IN  IF contributing = {} THEN k \notin DOMAIN preAgg
              ELSE /\ k \in DOMAIN preAgg
                   /\ preAgg[k].eventCount = Cardinality(contributing)
                   /\ preAgg[k].value = ReductionOver(rule.operator, rule.field, contributing)

SequencePositiveDistinct ==
    \A a, b \in events : a.seq > 0 /\ (a # b => a.seq # b.seq)

AppendAfter ==
    \A w \in Writers :
        (writer[w].pc = "idle" /\ writer'[w].pc = "inserted")
            => \A e \in events : e.seq < writer'[w].ingestSeq

\* C4: monotonic sequence: the ingest_seq values of the log are positive and
\* pairwise distinct, and an append that starts after another append has
\* completed is assigned a greater ingest_seq, also with concurrent writers.
MonotonicSequence == []SequencePositiveDistinct /\ [][AppendAfter]_vars

\* two concurrent requests have both been stored
MonotonicSequenceWitness ==
    \E w1, w2 \in Writers :
        /\ w1 # w2
        /\ writer[w1].pc = "done" /\ writer[w1].err = "nil"
        /\ writer[w2].pc = "done" /\ writer[w2].err = "nil"
        /\ writer[w1].ingestSeq < writer[w2].ingestSeq
        /\ \E a, b \in events : a.seq = writer[w1].ingestSeq /\ b.seq = writer[w2].ingestSeq

\* C6: no-gap cursor: no event becomes visible with an ingest_seq at or
\* below the cursor the reader (the sweeper's durable checkpoint) has
\* already advanced to.
NoGapCursor ==
    [][\A e \in events' \ events : e.seq > ReadCheckpoint(checkpoints, BucketLabel)]_vars

\* C7: checkpoint monotonicity: under every interleaving of Flush calls
\* the durable cursor of a bucket size never decreases.
CheckpointMonotonic ==
    [][\A b \in DOMAIN checkpoints :
          b \in DOMAIN checkpoints' /\ checkpoints'[b] >= checkpoints[b]]_vars

\* a flush committed and a flush of a concurrent iteration advanced the
\* cursor past it
CheckpointMonotonicWitness ==
    \E s, t \in Sweepers :
        /\ s # t
        /\ sweeper[s].flush = "committed"
        /\ sweeper[t].flush = "committed"
        /\ NewCursor(s) < NewCursor(t)
        /\ checkpoints[BucketLabel] = NewCursor(t)

\* C8: flush atomicity: the committed pre-aggregates or the committed
\* checkpoint change only in the commit of a Flush, which installs all the
\* upserts of the batch together with the new cursor; a failed or crashed
\* Flush changes neither.
FlushAtomicity ==
    [][(preAgg' # preAgg \/ checkpoints' # checkpoints) =>
          \E s \in Sweepers :
              /\ sweeper[s].pc = "checkpointed"
              /\ sweeper'[s].flush = "committed"
              /\ sweeper'[s].err = "nil"
              /\ preAgg' = UpsertAll(preAgg, Aggregates(s), DOMAIN Aggregates(s))
              /\ checkpoints' = [checkpoints EXCEPT ![BucketLabel] = NewCursor(s)]]_vars

\* a Flush failed after its upserts and nothing of the batch is durable
FlushAtomicityWitness ==
    \E s \in Sweepers :
        /\ sweeper[s].pc = "returned"
        /\ sweeper[s].flush = "aborted"
        /\ sweeper[s].err = "error"
        /\ Aggregates(s) # EmptyAggregates
        /\ preAgg = EmptyAggregates
        /\ checkpoints[BucketLabel] = 0

\* C9: stale-flush guard: a Flush whose cursor is at or below the durable
\* cursor returns success, writes no pre-aggregate row and leaves the
\* checkpoint as it is.
StaleFlushGuard ==
    [][\A s \in Sweepers :
          (/\ sweeper[s].pc = "locked"
           /\ NewCursor(s) <= sweeper[s].durableCursor
           /\ FlushUpsert(s))
              => /\ sweeper'[s].pc = "returned"
                 /\ sweeper'[s].err = "nil"
                 /\ preAgg' = preAgg
                 /\ checkpoints' = checkpoints]_vars

\* a Flush carrying aggregates was skipped as stale
StaleFlushGuardWitness ==
    \E s \in Sweepers :
        /\ sweeper[s].pc = "returned"
        /\ sweeper[s].flush = "skipped"
        /\ sweeper[s].err = "nil"
        /\ Aggregates(s) # EmptyAggregates
        /\ NewCursor(s) <= checkpoints[BucketLabel]

\* C3: read-path completeness: a successful QueryAggregates called at time T
\* counts every event of its principal, source type and range that was in
\* the log at T, wherever the sweeper checkpoint stands.
ReadPathCompleteness ==
    (query.pc = "done" /\ query.err = "nil")
        => sumEventCounts(query.resp.values) >= Cardinality(query.atStart)

\* C5: idempotent append: SaveEvent for a (principal_id, id) the log already
\* holds returns ErrDuplicate, leaves the log as it is, leaves the caller's
\* IngestSeq at 0, and every query answers as it did before.
IdempotentAppend ==
    [][\A w \in Writers :
          (/\ writer[w].pc = "idle"
           /\ writer'[w].pc # "idle"
           /\ \E r \in events : /\ r.principal = writer'[w].event.principal
                                /\ r.id = writer'[w].event.id)
              => /\ writer'[w].pc = "done"
                 /\ writer'[w].err = "ErrDuplicate"
                 /\ writer'[w].ingestSeq = 0
                 /\ events' = events
                 /\ \A request \in QueryRequests, now \in Clock :
                       QueryAggregates(events', preAgg', checkpoints', request, now)
                           = QueryAggregates(events, preAgg, checkpoints, request, now)]_vars

\* a retry of a stored event was answered with ErrDuplicate
IdempotentAppendWitness ==
    \E w \in Writers :
        /\ writer[w].pc = "done"
        /\ writer[w].err = "ErrDuplicate"
        /\ writer[w].ingestSeq = 0
        /\ \E r \in events : /\ r.principal = writer[w].event.principal
                             /\ r.id = writer[w].event.id
                             /\ r.seq > 0

\* C10: the query result is independent of sweeper progress: against one
\* log, the values and event counts QueryAggregates returns with the
\* pre-aggregates and checkpoint as the sweeper left them equal those it
\* returns with nothing swept.
SweepIndependence ==
    \A request \in QueryRequests, now \in Clock :
        LET hybrid == QueryAggregates(events, preAgg, checkpoints, request, now)
            replay == QueryAggregates(events, EmptyAggregates, (BucketLabel :> 0), request, now)
        IN  (hybrid.err = "nil" /\ replay.err = "nil")
                => hybrid.resp.values = replay.resp.values

BatchSeqs(s) == {sweeper[s].batch[i].seq : i \in SeqIndices(sweeper[s].batch)}

\* C12: iteration failure semantics: an error of the fetch or of Flush makes
\* the iteration return an error with the durable checkpoint and the
\* pre-aggregates as they were, and the next iteration of the sweeper starts
\* from the same cursor with the events of the failed batch still ahead of it.
IterationFailureSemantics ==
    [][\A s \in Sweepers :
          /\ (/\ sweeper[s].pc \in {"fetch", "flush", "locked", "upserted", "checkpointed"}
              /\ sweeper'[s].err = "error")
                 => /\ sweeper'[s].pc = "returned"
                    /\ preAgg' = preAgg
                    /\ checkpoints' = checkpoints
          /\ (/\ sweeper[s].pc = "idle"
              /\ sweeper[s].last.outcome = "failed"
              /\ sweeper'[s].pc = "fetch")
                 => /\ sweeper'[s].cursor = sweeper[s].last.cursor
                    /\ \A q \in sweeper[s].last.seqs :
                          \E e \in events' : e.seq = q /\ e.seq > sweeper'[s].cursor]_vars

\* an iteration whose Flush failed after its upserts was run again and
\* fetched the events of the failed batch
IterationFailureSemanticsWitness ==
    \E s \in Sweepers :
        /\ sweeper[s].pc = "flush"
        /\ sweeper[s].last.outcome = "failed"
        /\ sweeper[s].last.seqs # {}
        /\ sweeper[s].last.seqs \subseteq BatchSeqs(s)
        /\ sweeper[s].cursor = sweeper[s].last.cursor

\* C13: crash idempotence: with iterations that die before or after the
\* commit of Flush and are run again, the durable pre-aggregates are those
\* one uninterrupted run over the events up to the checkpoint produces: no
\* event is folded twice and none is lost.
CrashIdempotence ==
    LET upTo == {e \in events : e.seq <= ReadCheckpoint(checkpoints, BucketLabel)}
    IN  preAgg = buildPreAggregatesConcurrently(SortBySeq(upTo), toCompiledRuleMap(Rules),
                                                JobParameter(BucketLabel))

\* after an iteration that died with a fetched batch, the iteration run
\* again has committed that batch
CrashIdempotenceWitness ==
    \E s \in Sweepers :
        /\ sweeper[s].pc = "returned"
        /\ sweeper[s].flush = "committed"
        /\ sweeper[s].last.outcome = "failed"
        /\ sweeper[s].last.seqs # {}
        /\ sweeper[s].last.seqs \subseteq BatchSeqs(s)
        /\ preAgg # EmptyAggregates
        /\ checkpoints[BucketLabel] = NewCursor(s)

\* C14: non-snapshot read race: when QueryAggregates reads the aggregates
\* (QueryRange) and then the checkpoint (ReadCheckpoint) in two statements,
\* a Flush committing in between costs nothing: the response still counts
\* every event of its scope that was in the log at the call, and none twice.
\* (Principals whose rows the read finds, so that only the race decides.)
SerialReadCountsOnce ==
    (/\ query.pc = "done"
     /\ query.err = "nil"
     /\ query.path = "serial"
     /\ PartitionOf[query.req.principal] = queryPartitionID)
        => /\ sumEventCounts(query.resp.values) >= Cardinality(query.atStart)
           /\ sumEventCounts(query.resp.values)
                  <= Cardinality(InScope(query.req, ServiceRules[query.req.rule]))

\* C15: partition consistency between write and read: every row the sweeper
\* flushed for a principal, a rule and a window is returned by QueryRange and
\* by QueryRangeWithCheckpoint for that principal, rule and a range holding
\* the window, for every principal id.
PartitionConsistency ==
    \A k \in DOMAIN preAgg :
        LET row      == ScannedState(preAgg, k)
            ranged   == QueryRange(preAgg, k.principalID, k.ruleName, k.bucketSize,
                                   k.windowStart, k.windowStart + BucketSeconds)
            snapshot == QueryRangeWithCheckpoint(preAgg, checkpoints, k.principalID,
                                                 k.ruleName, k.bucketSize, k.windowStart,
                                                 k.windowStart + BucketSeconds)
        IN  /\ row \in SeqRange(ranged)
            /\ row \in SeqRange(snapshot.aggregates)

RECURSIVE SumValues(_)
SumValues(values) ==
    IF values = <<>> THEN 0 ELSE Head(values).value + SumValues(Tail(values))

\* C16: roll-up composition for count and sum: on the same merged buckets
\* and the same range, the value and the event_count of the total entry
\* equal the sums over the 1m entries, over the 1h entries and over the 1d
\* entries.
RollupCompositionSum ==
    (calc.pc = "done" /\ calc.operator \in {OpCount, OpSum})
        => /\ Len(calc.total) = 1
           /\ \A entries \in {calc.minutes, calc.hours, calc.days} :
                 /\ SumValues(entries) = calc.total[1].value
                 /\ sumEventCounts(entries) = calc.total[1].eventCount

\* the extremum of an operator over the entries that hold events; 0 without any
Extremum(operator, entries) ==
    LET vals == {entries[i].value : i \in {j \in SeqIndices(entries) : entries[j].eventCount > 0}}
    IN  IF vals = {} THEN 0
        ELSE IF operator = OpMin THEN CHOOSE v \in vals : \A o \in vals : v <= o
        ELSE CHOOSE v \in vals : \A o \in vals : v >= o

\* C17: roll-up composition for min and max: on the same merged buckets and
\* the same range, the value of the total entry equals the extremum over the
\* 1m entries, over the 1h entries and over the 1d entries (the entries of
\* empty groups, which hold no event, aside).
RollupCompositionExtremum ==
    (calc.pc = "done" /\ calc.operator \in {OpMin, OpMax})
        => /\ Len(calc.total) = 1
           /\ \A entries \in {calc.minutes, calc.hours, calc.days} :
                 Extremum(calc.operator, entries) = calc.total[1].value

\* the events in the scope of the request of the query after its checkpoint
TailSeqs(rows) ==
    LET rule == ServiceRules[query.req.rule]
    IN  {e.seq : e \in {r \in rows : /\ r.seq > query.checkpoint
                                      /\ r.principal = query.req.principal
                                      /\ r.type = rule.sourceEvent
                                      /\ r.occurredAt >= query.req.start
                                      /\ r.occurredAt < query.req.end}}

TailAtStart == {q \in query.atStart : q > query.checkpoint}

ScannedCount == sumEventCounts(SortedBuckets(query.scan.buckets))

TailCap == MaxRawQueryIterations * RawQueryBatchSize

\* C18 as stated: the tail scan fails only when the unmaterialized tail
\* exceeds the cap of maxRawQueryIterations fetches of rawQueryBatchSize events.
TailScanCapExceeded ==
    (query.pc = "done" /\ query.err = "query raw event tail")
        => Cardinality(TailSeqs(events)) > TailCap

\* C18, amended: the tail scan makes at most maxRawQueryIterations fetches;
\* when the tail holds as many events as the cap allows to read, or more,
\* QueryAggregates returns the tail-scan error and no values; when it
\* succeeds, the tail was below the cap and every tail event that was in
\* the log at the call is counted.
TailScanCap ==
    /\ query.pc \in {"tail", "done"} => query.scan.iterations <= MaxRawQueryIterations
    /\ (query.pc = "done" /\ query.err = "query raw event tail")
          => /\ query.resp = NoResponse
             /\ query.scan.iterations = MaxRawQueryIterations
             /\ ScannedCount = TailCap
             /\ Cardinality(TailSeqs(events)) >= TailCap
    /\ (query.pc = "done" /\ query.err = "nil")
          => /\ Cardinality(TailAtStart) < TailCap
             /\ ScannedCount >= Cardinality(TailAtStart)
             /\ ScannedCount <= Cardinality(TailSeqs(events))

\* the scan read as many events as the cap allows, the tail held no more,
\* and the query failed
TailScanCapWitness ==
    /\ query.pc = "done"
    /\ query.err = "query raw event tail"
    /\ query.scan.iterations = MaxRawQueryIterations
    /\ Cardinality(TailSeqs(events)) = TailCap

\* what the claim calls an invalid request (an omitted granularity stands for total)
InvalidRequest(req) ==
    \/ req.rule \notin RuleNames
    \/ req.end <= req.start
    \/ req.granularity \notin {"total", "1m", "1h", "1d"}

QueryRejectedUnread ==
    /\ query.pc \in {"load", "checkpoint", "tail"} => ~InvalidRequest(query.req)
    /\ (query.pc = "done" /\ InvalidRequest(query.req))
          => /\ query.err = "ErrInvalidQuery"
             /\ HandleQueryAggregates(query.err) = 400
             /\ query.resp = NoResponse
             /\ query.path = ""
             /\ query.aggregates = <<>>
             /\ query.scan = ScanFrom(0)

\* C19: query validation: a request with an unknown rule, with end <= start
\* or with a granularity outside {total, 1m, 1h, 1d} fails with
\* ErrInvalidQuery (HTTP 400) in the step that accepts it, and no statement
\* of the pre-aggregate store or of the event store is run for it.
QueryValidation ==
    /\ []QueryRejectedUnread
    /\ [][(query.pc = "idle" /\ query'.pc # "idle" /\ InvalidRequest(query'.req))
             => (query'.pc = "done" /\ query'.err = "ErrInvalidQuery")]_vars

\* requests of each invalid kind exist, and one has been rejected
QueryValidationWitness ==
    /\ query.pc = "done"
    /\ query.err = "ErrInvalidQuery"
    /\ query.req.end <= query.req.start
    /\ events # {}
    /\ \E r \in QueryRequests : r.rule \notin RuleNames
    /\ \E r \in QueryRequests : r.granularity \notin {"", "total", "1m", "1h", "1d"}

PassedEnvelope(evt) ==
    evt.id # "" /\ evt.principal # "" /\ evt.type # "" /\ evt.occurredAt # ZeroTime

PassedSchema(evt) ==
    \E sch \in SchemaRepository :
        /\ sch.tenant \in {"default", PlatformTenantID}
        /\ sch.type = evt.type
        /\ sch.version = evt.schemaVersion
        /\ \A f \in DOMAIN sch.fields :
              f \in DOMAIN evt.data /\ evt.data[f].kind = sch.fields[f]

\* the request of w has called SaveEvent
SaveEventCalled(w) ==
    \/ writer[w].pc = "inserted"
    \/ writer[w].pc = "done" /\ writer[w].err \in {"nil", "ErrDuplicate", "storage"}

IngestionOutcome ==
    \A w \in Writers :
        /\ SaveEventCalled(w)
             => /\ writer[w].payloadSize <= maxBodySizeBytes
                /\ PassedEnvelope(writer[w].event)
                /\ writer[w].event.schemaVersion # 0 => PassedSchema(writer[w].event)
        /\ writer[w].pc = "done"
             => /\ statusCode(writer[w].err) = 202
                     => EventRow(writer[w].event, writer[w].ingestSeq) \in events
                /\ writer[w].err = "ErrDuplicate"
                     => statusCode(writer[w].err) = 409 /\ Conflicts(events, writer[w].event)
                /\ statusCode(writer[w].err) = 409 => writer[w].err = "ErrDuplicate"
                /\ writer[w].err = "storage" => statusCode(writer[w].err) = 500
                /\ writer[w].payloadSize > maxBodySizeBytes
                     => statusCode(writer[w].err) = 413 /\ ~SaveEventCalled(w)
                /\ (/\ writer[w].payloadSize <= maxBodySizeBytes
                    /\ writer[w].event # NoEvent
                    /\ \/ ~PassedEnvelope(writer[w].event)
                       \/ /\ writer[w].event.schemaVersion # 0
                          /\ ~PassedSchema(writer[w].event))
                     => statusCode(writer[w].err) = 400 /\ ~SaveEventCalled(w)

\* C20: ingestion outcome mapping and ordering: POST /v1/events answers 202
\* only when the row of the event is in the event store, 409 exactly when
\* SaveEvent reported ErrDuplicate, 500 on another store error, 413 when the
\* body is longer than the cap, 400 when the envelope or the schema rejects
\* the event; SaveEvent is called only for a body within the cap whose event
\* passed envelope validation, and schema validation when schema_version is
\* not 0; a request that was rejected before SaveEvent draws no ingest_seq,
\* and after ErrDuplicate the request only answers: no second SaveEvent.
IngestionOutcomeMapping ==
    /\ []IngestionOutcome
    /\ [][\A w \in Writers :
             /\ (writer[w].pc = "done" /\ writer[w].err = "ErrDuplicate"
                    /\ writer'[w] # writer[w])
                  => (writer'[w] = WriterIdle /\ seqLast' = seqLast /\ events' = events)
             /\ (writer[w].pc = "idle" /\ writer'[w].pc = "done"
                    /\ writer'[w].err # "ErrDuplicate")
                  => (seqLast' = seqLast /\ events' = events)]_vars

\* one request answers 409 for a stored event while another answers 400 for
\* an event whose data the schema rejects
IngestionOutcomeMappingWitness ==
    \E w1, w2 \in Writers :
        /\ writer[w1].pc = "done" /\ writer[w1].err = "ErrDuplicate"
        /\ statusCode(writer[w1].err) = 409
        /\ writer[w2].pc = "done" /\ writer[w2].err = "schema_invalid"
        /\ statusCode(writer[w2].err) = 400
        /\ writer[w2].event.schemaVersion # 0

SchedulerReturnedOnce ==
    /\ scheduler.finals <= 1
    /\ scheduler.pc = "returned"
         => /\ scheduler.finals = 1
            /\ scheduler.call = "final"
            /\ scheduler.ctxDone
            /\ sweeper["s1"].pc = "idle"

SchedulerCalls ==
    /\ (scheduler.pc = "new" /\ scheduler'.pc # "new")
         => (scheduler'.pc = "drain" /\ scheduler'.call = "initial")
    /\ (scheduler.pc = "select" /\ scheduler'.pc # "select")
         => /\ scheduler'.pc = "drain"
            /\ scheduler'.batchCount = 0
            /\ \/ /\ scheduler'.call = "tick"
                  /\ scheduler.tick /\ ~scheduler'.tick
                  /\ scheduler'.finals = scheduler.finals
               \/ /\ scheduler'.call = "final"
                  /\ scheduler.ctxDone /\ ~scheduler'.shutdownDone
                  /\ scheduler'.finals = scheduler.finals + 1
    /\ (scheduler.pc \in {"drain", "iterating"} /\ scheduler'.pc \notin {"drain", "iterating"})
         => scheduler'.pc = (IF scheduler.call = "final" THEN "returned" ELSE "select")
    /\ (scheduler.pc \in {"drain", "iterating"} /\ scheduler'.pc \in {"drain", "iterating"})
         => scheduler'.call = scheduler.call
    /\ (scheduler.pc = "drain" /\ scheduler'.pc = "iterating" /\ scheduler.ctxDone)
         => (scheduler.call = "final" /\ ~scheduler.shutdownDone)
    /\ scheduler.pc = "returned" => (scheduler' = scheduler /\ sweeper' = sweeper)

\* C21: scheduler lifecycle: the first thing Start does is one call of
\* drainBacklog; from its select it calls drainBacklog once for a tick it
\* takes out of the ticker, or, with ctx cancelled, once under a new
\* shutdown context whose deadline has not passed; when that final call
\* returns Start returns, which happens at most once and leaves no iteration
\* running; with ctx cancelled an iteration begins only in the final call;
\* and once ctx is cancelled Start returns sooner or later.
SchedulerLifecycle ==
    /\ []SchedulerReturnedOnce
    /\ [][SchedulerCalls]_vars
    /\ (scheduler.ctxDone ~> scheduler.pc = "returned")

\* Start has returned after a final drain that folded events
SchedulerLifecycleWitness ==
    /\ scheduler.pc = "returned"
    /\ scheduler.call = "final"
    /\ scheduler.exit = "drained"
    /\ scheduler.batchCount = 2
    /\ checkpoints[BucketLabel] = 1

\* a key of the call names another bucket size than the call, each after its default
Mismatched(args) ==
    \E k \in DOMAIN args.aggregates :
        (IF k.bucketSize = "" THEN "1m" ELSE k.bucketSize)
            # (IF args.bucketSize = "" THEN "1m" ELSE args.bucketSize)

\* C22 as stated: whenever a key of the call has a bucket_size different from
\* the bucket_size argument, Flush returns an error.
FlushBucketGuardAlways ==
    \A s \in Sweepers :
        (/\ sweeper[s].pc = "returned"
         /\ sweeper[s].args.direct
         /\ Mismatched(sweeper[s].args))
            => sweeper[s].err # "nil"

FlushBucketGuardState ==
    /\ \A k \in DOMAIN preAgg : k.bucketSize = "1m"
    /\ \A s \in Sweepers :
          (sweeper[s].pc = "returned" /\ Mismatched(sweeper[s].args))
             => /\ sweeper[s].flush # "committed"
                /\ sweeper[s].err = "nil" => sweeper[s].flush = "skipped"

\* C22: Flush bucket guard: with an empty bucket size read as "1m" on both
\* sides, a call of Flush with a key of another bucket size than its
\* argument stores nothing and leaves the checkpoint as it is; it returns an
\* error when its cursor is greater than the durable cursor, and returns
\* without an error, as every stale call does, when it is not; no row of
\* another bucket size than "1m" is ever stored.
FlushBucketGuard ==
    /\ []FlushBucketGuardState
    /\ [][\A s \in Sweepers :
             (/\ sweeper[s].pc = "locked"
              /\ sweeper'[s].pc # "locked"
              /\ Mismatched(sweeper[s].args))
                 => /\ sweeper'[s].pc = "returned"
                    /\ preAgg' = preAgg
                    /\ checkpoints' = checkpoints
                    /\ sweeper[s].args.cursor > sweeper[s].durableCursor
                         => sweeper'[s].err # "nil"]_vars

\* a call with keys of two bucket sizes returned the mismatch error after
\* another call had stored a row and moved the checkpoint
FlushBucketGuardWitness ==
    \E s \in Sweepers :
        /\ sweeper[s].pc = "returned"
        /\ sweeper[s].err = "bucket mismatch"
        /\ Cardinality(DOMAIN sweeper[s].args.aggregates) = 2
        /\ preAgg # EmptyAggregates
        /\ checkpoints[BucketLabel] = 1
        /\ sweeper[s].args.cursor = 2

\* result holds the (at most limit) rows of smallest ingest_seq above cursor,
\* in ascending order
SmallestAfterCursor(result, rows, cursor, limit) ==
    /\ Len(result) <= limit
    /\ \A i \in 1..Len(result) : result[i] \in rows /\ result[i].seq > cursor
    /\ \A i, j \in 1..Len(result) : i < j => result[i].seq < result[j].seq
    /\ \A r \in rows :
          (r.seq > cursor /\ \A i \in 1..Len(result) : result[i] # r)
             => /\ Len(result) = limit
                /\ \A i \in 1..Len(result) : result[i].seq < r.seq

\* the scopes of the scoped read: [start, end) over the windows of the events
CursorScopes ==
    { [principal |-> p, type |-> t, start |-> r[1], end |-> r[2]] :
        p \in Principals, t \in {"api.request", "other.event"},
        r \in { <<0, 2 * BucketSeconds>>, <<15, 75>> } }

ScopedRows(rows, scope) ==
    { r \in rows : /\ r.principal = scope.principal
                   /\ r.type = scope.type
                   /\ scope.start <= r.occurredAt
                   /\ r.occurredAt < scope.end }

CursorReads ==
    \A cursor \in 0..MaxSeq, limit \in 1..MaxSeq :
        /\ SmallestAfterCursor(RetrieveEventsAfterCursor(events, cursor, limit),
                               events, cursor, limit)
        /\ \A scope \in CursorScopes :
              SmallestAfterCursor(
                  RetrieveScopedEventsAfterCursor(events, cursor, scope.principal,
                      scope.type, scope.start, scope.end, limit),
                  ScopedRows(events, scope), cursor, limit)

\* C23: ReadAfterCursor result: for every cursor and limit the read returns
\* the at most limit events of smallest ingest_seq greater than the cursor,
\* in ascending ingest_seq order, and the scoped read returns the same over
\* the events of one principal and one type with start <= occurred_at < end;
\* the batch an iteration fetches is such a result for its cursor; and a
\* step that appends no event leaves the result of every read as it was.
ReadAfterCursorResult ==
    /\ []CursorReads
    /\ [][\A s \in Sweepers :
             (sweeper[s].pc = "fetch" /\ sweeper'[s].pc # "fetch" /\ sweeper'[s].err = "nil")
                => SmallestAfterCursor(sweeper'[s].batch, events, sweeper[s].cursor, BatchSize)]_vars
    /\ [][events' = events
             => \A cursor \in 0..MaxSeq, limit \in 1..MaxSeq :
                   RetrieveEventsAfterCursor(events', cursor, limit)
                       = RetrieveEventsAfterCursor(events, cursor, limit)]_vars

\* an iteration fetched the whole log of two events in order, and a read
\* with limit 1 from cursor 0 leaves one of them out
ReadAfterCursorResultWitness ==
    /\ Cardinality(events) = 2
    /\ sweeper["s1"].pc = "flush"
    /\ sweeper["s1"].cursor = 0
    /\ Len(sweeper["s1"].batch) = 2
    /\ Len(RetrieveEventsAfterCursor(events, 0, 1)) = 1
    /\ \E scope \in CursorScopes :
          /\ ScopedRows(events, scope) # {}
          /\ ScopedRows(events, scope) # events

\* the window starts among the merged buckets of the call
MergedWindows ==
    {calc.base[i].windowStart : i \in 1..Len(calc.base)}
        \cup {calc.tail[i].windowStart : i \in 1..Len(calc.tail)}

FlushCommits(s) ==
    /\ sweeper[s].pc = "checkpointed"
    /\ sweeper'[s].pc = "returned"
    /\ sweeper'[s].flush = "committed"

CursorAdvance ==
    [][\A s \in Sweepers :
          /\ (sweeper[s].batch # <<>> /\ sweeper[s].pc # "idle")
                => /\ \A i, j \in 1..Len(sweeper[s].batch) :
                          i < j => sweeper[s].batch[i].seq < sweeper[s].batch[j].seq
                   /\ \A q \in BatchSeqs(s) :
                          q <= sweeper[s].batch[Len(sweeper[s].batch)].seq
          /\ FlushCommits(s)
                => /\ sweeper[s].batch # <<>>
                   /\ BucketLabel \in DOMAIN checkpoints'
                   /\ checkpoints'[BucketLabel] \in BatchSeqs(s)
                   /\ \A q \in BatchSeqs(s) : q <= checkpoints'[BucketLabel]
                   /\ checkpoints'[BucketLabel] > sweeper[s].durableCursor
          /\ (sweeper[s].pc # "returned" /\ sweeper'[s].pc = "returned"
                 /\ sweeper'[s].err = "nil")
                => sweeper'[s].count = Len(sweeper[s].batch)]_vars

\* an iteration fetched two events, committed and returned 2, and the
\* durable checkpoint is the ingest_seq of the second
CursorAdvanceWitness ==
    \E s \in Sweepers :
        /\ sweeper[s].pc = "returned"
        /\ sweeper[s].flush = "committed"
        /\ Len(sweeper[s].batch) = 2
        /\ sweeper[s].count = 2
        /\ sweeper[s].batch[1].seq < sweeper[s].batch[2].seq
        /\ checkpoints[BucketLabel] = sweeper[s].batch[2].seq

\* the iteration of the drain returned to drainBacklog in this step
IterationReturned ==
    /\ scheduler.pc = "iterating"
    /\ scheduler'.pc # "iterating"

\* drainBacklog starts an iteration in this step
IterationStarted ==
    /\ scheduler.pc = "drain"
    /\ scheduler'.pc = "iterating"

\* what drainBacklog does after an iteration and before one
DrainLoopStep ==
    /\ IterationReturned
          => /\ (scheduler'.pc = "drain")
                   <=> (sweeper["s1"].err = "nil" /\ sweeper["s1"].count = scheduler.batchSize)
             /\ (scheduler'.pc # "drain")
                   => (/\ scheduler'.pc \in {"select", "returned"}
                       /\ scheduler'.exit
                             = (IF sweeper["s1"].err # "nil" THEN "error" ELSE "drained"))
    /\ IterationStarted
          => (/\ scheduler.batchCount < maxConsecutiveBatches
              /\ (scheduler.call = "final" => ~scheduler.shutdownDone)
              /\ (scheduler.call # "final" => ~scheduler.ctxDone))

\* C27: drainBacklog loop: after an iteration drainBacklog goes back to its
\* loop exactly when the iteration returned no error and a count equal to
\* batch_size, and returns otherwise; it starts no iteration when its
\* context is cancelled or when it has counted the cap of iterations, it
\* never counts more iterations than the cap in one call, and every call
\* returns.
DrainLoop ==
    /\ [][DrainLoopStep]_vars
    /\ [](scheduler.batchCount <= maxConsecutiveBatches)
    /\ [](scheduler.pc = "iterating" => scheduler.batchCount < maxConsecutiveBatches)
    /\ (scheduler.pc \in {"drain", "iterating"}
           ~> scheduler.pc \in {"select", "returned"})

\* a call of drainBacklog stopped at the cap after full batches only
DrainLoopWitness ==
    /\ scheduler.pc \in {"select", "returned"}
    /\ scheduler.exit = "cap"
    /\ scheduler.batchCount = maxConsecutiveBatches
    /\ checkpoints[BucketLabel] = maxConsecutiveBatches * DrainBatchSize

\* a call of drainBacklog returns after an iteration with fewer events than
\* batch_size, and the log is the one the call began with
DrainedUndisturbed ==
    /\ scheduler.pc = "iterating"
    /\ scheduler'.pc # "iterating"
    /\ scheduler'.exit = "drained"
    /\ Cardinality(events') = scheduler.logSize

\* C28: Drain to empty: when drainBacklog returns without an error, without
\* cancellation and without reaching the cap, and no event was appended
\* during the drain, no event of the log has an ingest_seq after the durable
\* checkpoint, and the checkpoint is the ingest_seq of an event of the log
\* when there is one (so it is the greatest), whatever the batch size.
DrainToEmpty ==
    [][DrainedUndisturbed
          => /\ \A e \in events' : e.seq <= checkpoints'[BucketLabel]
             /\ events' # {}
                   => \E e \in events' : e.seq = checkpoints'[BucketLabel]]_vars

\* a backlog of two events drained with batch_size 2: one full batch, one
\* empty batch, and the checkpoint at the second event
DrainToEmptyWitness ==
    /\ scheduler.pc \in {"select", "returned"}
    /\ scheduler.exit = "drained"
    /\ scheduler.batchSize = 2
    /\ scheduler.batchCount = 2
    /\ scheduler.logSize = 2
    /\ Cardinality(events) = 2
    /\ checkpoints[BucketLabel] = 2
    /\ \E e \in events : e.seq = 2

\* the calls of Flush for bucket size b that have read the durable cursor
\* and have not committed or rolled back
InFlush(b) ==
    {s \in Sweepers : /\ sweeper[s].pc \in {"locked", "upserted", "checkpointed"}
                      /\ FlushLabel(s) = b}

\* C29: Flush mutual exclusion: for one bucket size at most one call of
\* Flush is between the read of the durable cursor and its commit or
\* rollback, and the cursor it read is the committed one (that of the last
\* flush that committed, 0 without one), also for a bucket size whose
\* checkpoint row was not there when the calls began.
FlushMutualExclusion ==
    \A b \in BucketLabels :
        /\ Cardinality(InFlush(b)) <= 1
        /\ \A s \in InFlush(b) :
              sweeper[s].durableCursor
                  = (IF b \in DOMAIN checkpoints THEN checkpoints[b] ELSE 0)

\* two calls found no checkpoint row; one of them has committed cursor 1 and
\* the other one has read it under the row lock
FlushMutualExclusionWitness ==
    \E s, t \in Sweepers :
        /\ s # t
        /\ sweeper[s].noRows /\ sweeper[t].noRows
        /\ sweeper[t].pc = "returned"
        /\ sweeper[t].flush = "committed"
        /\ sweeper[t].args.cursor = 1
        /\ s \in InFlush("10m")
        /\ ckLock["10m"] = s
        /\ sweeper[s].durableCursor = 1
        /\ checkpoints["10m"] = 1

\* the events of the request's principal, of the rule's source type and of
\* window w whose ingest_seq is at or below the checkpoint the read returned
SnapshotContributing(w) ==
    { e \in events : /\ e.principal = query.req.principal
                     /\ e.type = RuleNamed(query.req.rule).sourceEvent
                     /\ BucketFor(e.occurredAt, BucketSeconds) = w
                     /\ e.seq <= query.checkpoint }

\* the windows of the range of the request
SnapshotWindows ==
    { w \in WindowStarts : w >= query.req.start /\ w < query.req.end }

\* what the claim asks of the aggregates QueryRangeWithCheckpoint returned
SnapshotExact ==
    /\ {query.aggregates[i].windowStart : i \in 1..Len(query.aggregates)}
          = {w \in SnapshotWindows : SnapshotContributing(w) # {}}
    /\ \A i \in 1..Len(query.aggregates) :
          LET rule == RuleNamed(query.req.rule)
              evs  == SnapshotContributing(query.aggregates[i].windowStart)
          IN  /\ query.aggregates[i].eventCount = Cardinality(evs)
              /\ query.aggregates[i].value = ReductionOver(rule.operator, rule.field, evs)

\* C30: snapshot read consistency: the aggregates QueryRangeWithCheckpoint
\* returned hold exactly the contributions of the events with ingest_seq at
\* or below the checkpoint it returned, for the principal, the rule and the
\* range of the request, whatever Flush does meanwhile.
SnapshotReadConsistency ==
    (query.path = "snapshot" /\ query.pc = "tail") => SnapshotExact

\* the same for the principals whose rows lie in the partition the read binds
SnapshotReadConsistencyInPartition ==
    (/\ query.path = "snapshot"
     /\ query.pc = "tail"
     /\ PartitionOf[query.req.principal] = queryPartitionID) => SnapshotExact

\* the events of the log of the call that are after its checkpoint and in
\* the scope of its request
ScanTail ==
    { r \in calc.rows : /\ r.seq > calc.checkpoint
                        /\ r.principal = calc.req.principal
                        /\ r.type = RuleNamed(calc.req.rule).sourceEvent
                        /\ r.occurredAt >= calc.req.start
                        /\ r.occurredAt < calc.req.end }

ScanTailIn(w) == { r \in ScanTail : BucketFor(r.occurredAt, BucketSeconds) = w }

StatesAt(load, w) == {load[i] : i \in {j \in 1..Len(load) : load[j].windowStart = w}}

\* C32: read-side merge: mergeAggregateStates yields exactly one state per
\* window_start of the pre-aggregates or of the tail, in strictly ascending
\* window_start; for a window in both the value is old + tail for count and
\* sum, the lesser for min, the greater for max, and event_count is the
\* sum; for a window in one of them the state is that state unchanged.
ReadSideMerge ==
    calc.pc = "merged"
        => LET out == calc.merged
               wsOf(load) == {load[i].windowStart : i \in 1..Len(load)}
           IN  /\ wsOf(out) = wsOf(calc.base) \cup wsOf(calc.tail)
               /\ Len(out) = Cardinality(wsOf(calc.base) \cup wsOf(calc.tail))
               /\ \A i, j \in 1..Len(out) : i < j => out[i].windowStart < out[j].windowStart
               /\ \A i \in 1..Len(out) :
                     LET w    == out[i].windowStart
                         olds == StatesAt(calc.base, w)
                         news == StatesAt(calc.tail, w)
                     IN  CASE olds # {} /\ news # {} ->
                                 \A old \in olds, new \in news :
                                     /\ out[i].eventCount = old.eventCount + new.eventCount
                                     /\ calc.operator \in {OpCount, OpSum}
                                           => out[i].value = old.value + new.value
                                     /\ calc.operator = OpMin
                                           => /\ out[i].value \in {old.value, new.value}
                                              /\ out[i].value <= old.value
                                              /\ out[i].value <= new.value
                                     /\ calc.operator = OpMax
                                           => /\ out[i].value \in {old.value, new.value}
                                              /\ out[i].value >= old.value
                                              /\ out[i].value >= new.value
                           [] olds # {} /\ news = {} -> out[i] \in olds
                           [] olds = {} /\ news # {} -> out[i] \in news
                           [] OTHER -> FALSE

\* a min over three windows: the first in both loads with the lesser value
\* in the tail, the second in the pre-aggregates only, the third in the tail only
ReadSideMergeWitness ==
    /\ calc.pc = "merged"
    /\ calc.operator = OpMin
    /\ Len(calc.base) = 2 /\ calc.base[1].windowStart = 0 /\ calc.base[1].value = 6
    /\ calc.base[2].windowStart = BucketSeconds
    /\ Len(calc.tail) = 2 /\ calc.tail[1].windowStart = 0 /\ calc.tail[1].value = 4
    /\ calc.tail[2].windowStart = 2 * BucketSeconds
    /\ Len(calc.merged) = 3
    /\ calc.merged[1].value = 4 /\ calc.merged[1].eventCount = 4
    /\ calc.merged[2] = calc.base[2]
    /\ calc.merged[3] = calc.tail[2]

(***************************************************************************)
(* The shape of the hourly and daily roll-up                               *)
(***************************************************************************)
\* the number of periods of a grid through gridStart that begin before end
PeriodCount(gridStart, end, period) == (end - gridStart + period - 1) \div period

\* entries lie on the grid: the i-th covers [gridStart + (i-1) * period, + period),
\* one for each period that begins before end, and an entry whose period
\* holds the window of no bucket has value 0 and event_count 0
OnePerPeriod(entries, gridStart, end, period) ==
    /\ Len(entries) = PeriodCount(gridStart, end, period)
    /\ \A i \in SeqIndices(entries) :
          /\ entries[i].windowStart = gridStart + (i - 1) * period
          /\ entries[i].windowEnd = entries[i].windowStart + period
          /\ entries[i].windowStart < calc.end
          /\ entries[i].windowEnd > calc.start
          /\ (\A j \in SeqIndices(calc.aggregates) :
                 ~(/\ calc.aggregates[j].windowStart >= entries[i].windowStart
                   /\ calc.aggregates[j].windowStart < entries[i].windowEnd))
                => (entries[i].value = 0 /\ entries[i].eventCount = 0)

MaxWorkerCount == 3

\* the length of the longest batch
FoldBatchLen == 3

FoldWorkers == 1..MaxWorkerCount

\* events of both principals: two api.request events of one window and an
\* event of a type no rule names
FoldEvents == {e \in EventInputs : e.id \in {"e1", "e3", "e4"}}

\* batches as FetchEventsAfterCursor returns them: ascending ingest_seq
FoldBatches ==
    { [i \in 1..Len(order) |-> EventRow(order[i], i)] :
        order \in { o \in UNION {[1..n -> FoldEvents] : n \in 0..FoldBatchLen} :
                        \A i, j \in 1..Len(o) : i # j => o[i] # o[j] } }

minInt(a, b) == IF a < b THEN a ELSE b

\* groups: the principals of the batch, each with its events in batch order
FoldGroups(batch) == {batch[i].principal : i \in SeqIndices(batch)}

FoldGroupEvents(batch, p) == SelectSeq(batch, LAMBDA e : e.principal = p)

\* a results channel without a buffer
resultsUnbuffered(workerCount, groupCount) == 0

\* make(chan ..., minInt(jobParameter.WorkerCount, len(groups)))
resultsCapacity(workerCount, groupCount) == minInt(workerCount, groupCount)

FoldWorkerNone == [pc |-> "none", local |-> EmptyAggregates]

FoldInputs ==
    [pc : {"input"},
     batch : FoldBatches,
     workerCount : FoldWorkers,
     toSend : {{}},
     jobs : {<<>>},
     jobsClosed : {FALSE},
     worker : {[w \in FoldWorkers |-> FoldWorkerNone]},
     results : {<<>>},
     wg : {0},
     read : {0},
     merged : {EmptyAggregates}]

InitFold ==
    /\ events = {}
    /\ seqLast = 0
    /\ writer = [w \in Writers |-> WriterIdle]
    /\ preAgg = EmptyAggregates
    /\ checkpoints = (defaultBucketSize :> 0)
    /\ ckLock = [b \in BucketLabels |-> Nobody]
    /\ sweeper = [s \in Sweepers |-> SweeperIdle]
    /\ query = QueryIdle
    /\ calc \in FoldInputs
    /\ scheduler = SchedulerNew

FoldUnchanged == UNCHANGED <<events, seqLast, writer, preAgg, checkpoints, ckLock, sweeper, query, scheduler>>

\* grouping, the two channels, and either the early return or the start of
\* the workers
FoldBegin ==
    /\ calc.pc = "input"
    /\ LET groups      == FoldGroups(calc.batch)
           workerCount == minInt(calc.workerCount, Cardinality(groups))
       IN  IF workerCount <= 0
           THEN calc' = [calc EXCEPT !.pc = "returned"]
           ELSE calc' = [calc EXCEPT !.pc = "produce",
                                     !.toSend = groups,
                                     !.wg = workerCount,
                                     !.worker = [w \in FoldWorkers |->
                                                    IF w <= workerCount
                                                    THEN [pc |-> "range", local |-> EmptyAggregates]
                                                    ELSE FoldWorkerNone]]
    /\ FoldUnchanged

\* jobs <- groupedEvents, in the order the map iteration yields the groups;
\* the send blocks while the buffer of len(groups) is full
FoldSendJob ==
    /\ calc.pc = "produce"
    /\ Len(calc.jobs) < Cardinality(FoldGroups(calc.batch))
    /\ \E p \in calc.toSend :
          calc' = [calc EXCEPT !.toSend = @ \ {p}, !.jobs = Append(@, p)]
    /\ FoldUnchanged

\* close(jobs), then wg.Wait()
FoldCloseJobs ==
    /\ calc.pc = "produce"
    /\ calc.toSend = {}
    /\ calc' = [calc EXCEPT !.pc = "wait", !.jobsClosed = TRUE]
    /\ FoldUnchanged

\* for groupEvents := range jobs { mergeGroupAggregates(local, groupEvents, ...) }
WorkerReceive(w) ==
    /\ calc.worker[w].pc = "range"
    /\ calc.jobs # <<>>
    /\ calc' = [calc EXCEPT
                   !.jobs = Tail(@),
                   !.worker[w].local =
                       mergeGroupAggregates(@, FoldGroupEvents(calc.batch, Head(calc.jobs)),
                                            toCompiledRuleMap(Rules), JobParameter(BucketLabel))]
    /\ FoldUnchanged

\* the range ends on the closed and drained channel; results <- local
WorkerSendResult(w) ==
    /\ calc.worker[w].pc = "range"
    /\ calc.jobs = <<>>
    /\ calc.jobsClosed
    /\ Len(calc.results) < resultsCapacity(calc.workerCount, Cardinality(FoldGroups(calc.batch)))
    /\ calc' = [calc EXCEPT !.results = Append(@, calc.worker[w].local),
                            !.worker[w].pc = "sent"]
    /\ FoldUnchanged

\* defer wg.Done()
WorkerDone(w) ==
    /\ calc.worker[w].pc = "sent"
    /\ calc' = [calc EXCEPT !.wg = @ - 1, !.worker[w].pc = "exited"]
    /\ FoldUnchanged

\* wg.Wait() returns; close(results)
FoldWaitReturns ==
    /\ calc.pc = "wait"
    /\ calc.wg = 0
    /\ calc' = [calc EXCEPT !.pc = "merge"]
    /\ FoldUnchanged

\* for local := range results: the keys of one local map into merged
FoldMergeResult ==
    /\ calc.pc = "merge"
    /\ calc.results # <<>>
    /\ calc' = [calc EXCEPT
                   !.results = Tail(@),
                   !.read = @ + 1,
                   !.merged = mergeLocal(@, Head(calc.results), DOMAIN Head(calc.results))]
    /\ FoldUnchanged

FoldReturn ==
    /\ calc.pc = "merge"
    /\ calc.results = <<>>
    /\ calc' = [calc EXCEPT !.pc = "returned"]
    /\ FoldUnchanged

FoldProducerNext == FoldBegin \/ FoldSendJob \/ FoldCloseJobs \/ FoldWaitReturns \/ FoldMergeResult \/ FoldReturn

FoldWorkerNext(w) == WorkerReceive(w) \/ WorkerSendResult(w) \/ WorkerDone(w)

NextFold == FoldProducerNext \/ \E w \in FoldWorkers : FoldWorkerNext(w)

SpecFold == InitFold /\ [][NextFold]_vars

\* the Go scheduler runs every goroutine that can take a step
SpecFoldLive ==
    /\ SpecFold
    /\ WF_vars(FoldProducerNext)
    /\ \A w \in FoldWorkers : WF_vars(FoldWorkerNext(w))

\* the fold of the batch by one loop in ingest_seq order
FoldSequential(batch) ==
    mergeGroupAggregates(EmptyAggregates, batch, toCompiledRuleMap(Rules), JobParameter(BucketLabel))

\* the keys the events of one principal group produce
FoldGroupKeys(batch, p) ==
    DOMAIN mergeGroupAggregates(EmptyAggregates, FoldGroupEvents(batch, p),
                                toCompiledRuleMap(Rules), JobParameter(BucketLabel))

\* C34: worker-count determinism: for every worker count of at least 1 and
\* every schedule of the producer and the workers, the map the concurrent
\* fold returns (value, event_count and last_event_id of each key) is the map
\* of the sequential fold of the batch in ingest_seq order, and no key is
\* produced by two principal groups: the maps of two workers share no key.
FoldDeterminism ==
    /\ calc.pc = "returned" => calc.merged = FoldSequential(calc.batch)
    /\ \A p, q \in FoldGroups(calc.batch) :
          p # q => FoldGroupKeys(calc.batch, p) \cap FoldGroupKeys(calc.batch, q) = {}
    /\ \A v, w \in FoldWorkers :
          v # w => DOMAIN calc.worker[v].local \cap DOMAIN calc.worker[w].local = {}

\* two workers for two groups whose events fall in the same window, the
\* result of the worker of the later event merged first
FoldDeterminismWitness ==
    /\ calc.pc = "returned"
    /\ calc.workerCount >= 2
    /\ Len(calc.batch) = 3
    /\ calc.batch[1].principal # calc.batch[3].principal
    /\ calc.batch[1].type = "api.request"
    /\ calc.batch[3].type = "api.request"
    /\ calc.worker[1].local # EmptyAggregates
    /\ calc.worker[2].local # EmptyAggregates
    /\ \E k \in DOMAIN calc.worker[1].local : k.principalID = calc.batch[3].principal
    /\ calc.read = 2
    /\ calc.merged = FoldSequential(calc.batch)

\* the workers buildPreAggregatesConcurrently starts for a batch
FoldStarted == minInt(calc.workerCount, Cardinality(FoldGroups(calc.batch)))

\* no goroutine of the fold waits on a channel that cannot proceed, and the
\* call returns having read one local map per started worker
FoldNeverBlocks ==
    /\ (calc.pc = "produce" /\ calc.toSend # {}) => ENABLED FoldSendJob
    /\ \A w \in FoldWorkers :
          (calc.worker[w].pc = "range" /\ calc.jobs = <<>> /\ calc.jobsClosed)
              => ENABLED WorkerSendResult(w)
    /\ calc.pc \in {"merge", "returned"}
          => \A w \in FoldWorkers :
                calc.worker[w].pc = (IF w <= FoldStarted THEN "exited" ELSE "none")
    /\ calc.pc = "returned"
          => /\ calc.read = FoldStarted
             /\ calc.toSend = {} /\ calc.jobs = <<>> /\ calc.results = <<>>
             /\ (FoldGroups(calc.batch) = {}
                    => /\ calc.merged = EmptyAggregates
                       /\ \A w \in FoldWorkers : calc.worker[w] = FoldWorkerNone)

\* C39: the concurrent fold always terminates without deadlock: the producer
\* enqueues every group without blocking, every started worker sends its
\* local map and exits, the merge reads exactly min(worker_count,
\* group_count) local maps, and with zero groups the call returns the empty
\* map without starting a worker.
FoldTerminates == []FoldNeverBlocks /\ <>(calc.pc = "returned")

\* a call over two groups with two workers that has returned after both
\* local maps were read, and both workers have exited
FoldTerminatesWitness ==
    /\ calc.pc = "returned"
    /\ Cardinality(FoldGroups(calc.batch)) = 2
    /\ calc.workerCount = MaxWorkerCount
    /\ calc.read = 2
    /\ calc.worker[1].pc = "exited" /\ calc.worker[2].pc = "exited"
    /\ calc.worker[MaxWorkerCount].pc = "none"

(***************************************************************************)
(* Runs of the batch job for two bucket labels                             *)
(***************************************************************************)
\* the rows of pre_aggregates of the bucket sizes other than label
OtherRows(tbl, label) ==
    [k \in {x \in DOMAIN tbl : keyBucketSize(x) # label} |-> tbl[k]]

\* the rows of aggregation_checkpoints of the bucket sizes other than label
OtherCheckpoints(ckpts, label) == [b \in DOMAIN ckpts \ {label} |-> ckpts[b]]

\* the checkpoint of a label as the table holds it, 0 without a row
CheckpointOf(label) == IF label \in DOMAIN checkpoints THEN checkpoints[label] ELSE 0

LabelIsolationStep ==
    \A s \in {"s1"} :
        \* the run starts from the checkpoint of its own label
        /\ (sweeper[s].pc = "idle" /\ sweeper'[s].pc = "fetch")
              => sweeper'[s].cursor = CheckpointOf(sweeper'[s].args.bucketSize)
        \* Flush reads the durable cursor of its own label
        /\ (sweeper[s].pc # "locked" /\ sweeper'[s].pc = "locked")
              => sweeper'[s].durableCursor = CheckpointOf(IterationLabel(s))
        \* rows and checkpoints of the other labels stay as they are
        /\ sweeper[s].pc # "idle"
              => /\ OtherRows(preAgg', IterationLabel(s)) = OtherRows(preAgg, IterationLabel(s))
                 /\ OtherCheckpoints(checkpoints', IterationLabel(s))
                       = OtherCheckpoints(checkpoints, IterationLabel(s))
        \* a commit advances the checkpoint of the label to the last event of
        \* the batch and writes keys of the label
        /\ (sweeper[s].pc = "checkpointed" /\ sweeper'[s].flush = "committed")
              => /\ IterationLabel(s) \in DOMAIN checkpoints'
                 /\ checkpoints'[IterationLabel(s)] = sweeper[s].batch[Len(sweeper[s].batch)].seq
                 /\ \A k \in DOMAIN preAgg' :
                       (k \notin DOMAIN preAgg \/ preAgg'[k] # preAgg[k])
                           => k.bucketSize = IterationLabel(s)

\* C35: per-bucket-size checkpoints: a run of the batch job and its Flush for
\* one bucket label read and advance only the checkpoint of that label and
\* write only keys of that label; the checkpoints and the rows of the other
\* labels stay unchanged, and the checkpoint of a label without a row reads 0.
LabelIsolation == [][LabelIsolationStep]_vars

\* after a run for 1m over the first event and a run for 10m over both, the
\* two checkpoints differ and rows of both labels are in the table
LabelIsolationWitness ==
    /\ sweeper["s1"].pc = "idle"
    /\ DOMAIN checkpoints = {"1m", "10m"}
    /\ checkpoints["1m"] = 1
    /\ checkpoints["10m"] = 2
    /\ \E k \in DOMAIN preAgg : k.bucketSize = "1m"
    /\ \E k \in DOMAIN preAgg : k.bucketSize = "10m" /\ preAgg[k].eventCount = 2

(***************************************************************************)
(* An iteration that fetches nothing                                       *)
(***************************************************************************)
\* the call of the iteration of s returns without an error on an empty batch
ReturnsOnEmptyBatch(s) ==
    /\ sweeper[s].pc = "fetch"
    /\ sweeper'[s].pc # "fetch"
    /\ sweeper'[s].err = "nil"
    /\ RetrieveEventsAfterCursor(events, sweeper[s].cursor, BatchSize) = <<>>

EmptyBatchStep ==
    \A s \in {"s1"} :
        /\ ReturnsOnEmptyBatch(s)
              => /\ sweeper'[s].pc = "returned"
                 /\ sweeper'[s].count = 0
                 /\ sweeper'[s].flush = "none"
                 /\ UNCHANGED <<preAgg, checkpoints, ckLock>>
        \* Flush is entered with a batch only, and the next run starts idle
        /\ sweeper'[s].pc \in {"flush", "norows", "initialised", "locked", "upserted",
                               "checkpointed"}
              => sweeper'[s].batch # <<>>
        /\ (sweeper[s].pc = "returned" /\ sweeper[s].batch = <<>> /\ sweeper[s].err = "nil")
              => /\ sweeper[s].count = 0 /\ sweeper[s].flush = "none"
                 /\ (sweeper'[s] # sweeper[s]
                        => UNCHANGED <<preAgg, checkpoints, ckLock, events>>)

\* C36: an empty batch is a no-op: an iteration whose fetch returns no event
\* returns 0 and no error, does not call Flush, and leaves the checkpoint and
\* the pre-aggregates unchanged.
EmptyBatchNoOp == [][EmptyBatchStep]_vars

\* an iteration that found nothing after a checkpoint that an earlier
\* iteration advanced to the newest event
EmptyBatchNoOpWitness ==
    /\ sweeper["s1"].pc = "returned"
    /\ sweeper["s1"].err = "nil"
    /\ sweeper["s1"].batch = <<>>
    /\ sweeper["s1"].cursor = 1
    /\ sweeper["s1"].count = 0
    /\ sweeper["s1"].flush = "none"
    /\ checkpoints[BucketLabel] = 1
    /\ preAgg # EmptyAggregates

\* C37: the durable checkpoint never exceeds the largest ingest_seq the log
\* has assigned, and it is always 0 or the ingest_seq of an event of the log.
CheckpointWithinLog ==
    \A b \in DOMAIN checkpoints :
        /\ checkpoints[b] <= seqLast
        /\ \A e \in events : e.seq <= seqLast
        /\ checkpoints[b] = 0 \/ \E e \in events : e.seq = checkpoints[b]

\* the checkpoint at the second value of the sequence, the only event of the
\* log: the first value went to an insert that was rolled back
CheckpointWithinLogWitness ==
    /\ seqLast = 2
    /\ checkpoints[BucketLabel] = 2
    /\ Cardinality(events) = 1
    /\ \A s \in Sweepers : sweeper[s].pc = "idle"

(***************************************************************************)
(* Batches none of whose events a rule takes                               *)
(***************************************************************************)
\* no rule with a registered operator names the type of an event of the batch
Unmatched(batch) ==
    \A i \in SeqIndices(batch) :
        ~\E r \in SeqRange(RunRules) :
            r.sourceEvent = batch[i].type /\ r.operator \in Operators

UnmatchedStep ==
    \A s \in {"s1"} :
        LET batch == sweeper[s].batch
        IN  /\ (sweeper[s].pc \in {"flush", "locked", "upserted", "checkpointed"}
                   /\ Unmatched(batch))
                  => Aggregates(s) = EmptyAggregates
            \* the commit of such a batch creates no row and advances the checkpoint
            /\ (sweeper[s].pc = "checkpointed" /\ sweeper'[s].flush = "committed"
                   /\ Unmatched(batch))
                  => /\ preAgg' = preAgg
                     /\ checkpoints'[BucketLabel] = batch[Len(batch)].seq
                     /\ sweeper'[s].err = "nil"
                     /\ sweeper'[s].count = Len(batch)
            \* a fetch starts behind the checkpoint it read
            /\ (sweeper[s].pc = "idle" /\ sweeper'[s].pc = "fetch")
                  => sweeper'[s].cursor = checkpoints[BucketLabel]
            /\ (sweeper[s].pc = "fetch" /\ sweeper'[s].pc = "flush")
                  => \A i \in SeqIndices(sweeper'[s].batch) :
                        /\ sweeper'[s].batch[i].seq > sweeper[s].cursor
                        /\ sweeper'[s].batch[i].seq > checkpoints[BucketLabel]

\* C38: events that match no rule do not block the sweeper: for a batch
\* whose events are of types no rule names, or whose rules have an operator
\* that is not registered, the fold yields the empty map, the Flush creates
\* no row and still advances the checkpoint to the last ingest_seq of the
\* batch, and no later fetch returns those events.
UnmatchedAdvances == [][UnmatchedStep]_vars

\* two committed events under rules of an unregistered operator: the
\* checkpoint is at the second and the table of pre-aggregates is empty
UnmatchedAdvancesWitness ==
    /\ calc.pc = "rules"
    /\ calc.rules = UnregisteredOperatorRules
    /\ Cardinality(events) = 2
    /\ \E e \in events : e.type = "api.request"
    /\ checkpoints[BucketLabel] = 2
    /\ preAgg = EmptyAggregates
    /\ sweeper["s1"].pc = "returned"
    /\ sweeper["s1"].flush = "committed"

(***************************************************************************)
(* Validator.getOrCompile: the cache of compiled schemas and singleflight  *)
(***************************************************************************)
\* calls of ValidateData each caller makes
MaxValidateCalls == 2

ValidateCallers == {"c1", "c2"}

\* validatorCacheKey of two schemas of one tenant, type and version that
\* differ in their fingerprint
SchemaKeys == {"t:api.request:1:fp-a", "t:api.request:1:fp-b"}

NoCaller == "none"

NoFlight == [leader |-> NoCaller, waiters |-> {}]

\* what getOrCompile returned: a compiled schema (the n-th compiled object) or an error
NoResult == [err |-> "none", obj |-> 0]

CallerIdle == [pc |-> "idle", key |-> "", result |-> NoResult, calls |-> 0]

\* compiled: the cache map; flight: the calls of compileGroup in flight;
\* compiles, failures: the compilations of a key that succeeded and failed;
\* obtained: the compiled schemas callers got for a key; invalidated:
\* InvalidateCache was called for the key; objects: the objects compiled so far
ValidatorNew ==
    [pc          |-> "validator",
     compiled    |-> [k \in {} |-> 0],
     flight      |-> [k \in SchemaKeys |-> NoFlight],
     caller      |-> [c \in ValidateCallers |-> CallerIdle],
     compiles    |-> [k \in SchemaKeys |-> 0],
     failures    |-> [k \in SchemaKeys |-> 0],
     obtained    |-> [k \in SchemaKeys |-> {}],
     invalidated |-> [k \in SchemaKeys |-> FALSE],
     objects     |-> 0]

InitValidator ==
    /\ events = {}
    /\ seqLast = 0
    /\ writer = [w \in Writers |-> WriterIdle]
    /\ preAgg = EmptyAggregates
    /\ checkpoints = (defaultBucketSize :> 0)
    /\ ckLock = [b \in BucketLabels |-> Nobody]
    /\ sweeper = [s \in Sweepers |-> SweeperIdle]
    /\ query = QueryIdle
    /\ calc = ValidatorNew
    /\ scheduler = SchedulerNew

ValidatorUnchanged == UNCHANGED <<events, seqLast, writer, preAgg, checkpoints, ckLock, sweeper, query, scheduler>>

\* getOrCompile returns result to caller c
Returned(c, result) ==
    [calc.caller[c] EXCEPT !.pc = "returned", !.result = result]

Obtained(k, result) ==
    IF result.err = "nil" THEN calc.obtained[k] \cup {result.obj} ELSE calc.obtained[k]

\* a caller calls ValidateData with a schema
ValidateDataCall(c) ==
    /\ calc.caller[c].pc \in {"idle", "returned"}
    /\ calc.caller[c].calls < MaxValidateCalls
    /\ \E k \in SchemaKeys :
          calc' = [calc EXCEPT !.caller[c] = [pc |-> "check", key |-> k, result |-> NoResult,
                                              calls |-> calc.caller[c].calls + 1]]
    /\ ValidatorUnchanged

\* the first look into the cache under the read lock
CacheCheck(c) ==
    /\ calc.caller[c].pc = "check"
    /\ LET k == calc.caller[c].key
       IN  IF k \in DOMAIN calc.compiled
           THEN calc' = [calc EXCEPT
                            !.caller[c] = Returned(c, [err |-> "nil", obj |-> calc.compiled[k]]),
                            !.obtained[k] = @ \cup {calc.compiled[k]}]
           ELSE calc' = [calc EXCEPT !.caller[c].pc = "do"]
    /\ ValidatorUnchanged

\* compileGroup.Do: the caller joins the call in flight for the key, or
\* starts one and runs the function
GroupDo(c) ==
    /\ calc.caller[c].pc = "do"
    /\ LET k == calc.caller[c].key
       IN  IF calc.flight[k].leader # NoCaller
           THEN calc' = [calc EXCEPT !.flight[k].waiters = @ \cup {c},
                                     !.caller[c].pc = "waiting"]
           ELSE calc' = [calc EXCEPT !.flight[k].leader = c,
                                     !.caller[c].pc = "doublecheck"]
    /\ ValidatorUnchanged

\* a function of the group that does not look into the cache again
DoubleCheckSkipped(cache, key) == FALSE

\* the second look into the cache, inside the function of the group
DoubleCheckHit(cache, key) == key \in DOMAIN cache

DoubleCheck(c) ==
    /\ calc.caller[c].pc = "doublecheck"
    /\ LET k == calc.caller[c].key
       IN  IF DoubleCheckHit(calc.compiled, k)
           THEN calc' = [calc EXCEPT !.caller[c].pc = "fndone",
                                     !.caller[c].result = [err |-> "nil", obj |-> calc.compiled[k]]]
           ELSE calc' = [calc EXCEPT !.caller[c].pc = "compile"]
    /\ ValidatorUnchanged

\* GetCompiler and compiler.Compile: a new compiled schema, or an error
Compile(c) ==
    /\ calc.caller[c].pc = "compile"
    /\ LET k == calc.caller[c].key
       IN  \/ calc' = [calc EXCEPT !.objects = @ + 1,
                                   !.compiles[k] = @ + 1,
                                   !.caller[c].pc = "store",
                                   !.caller[c].result = [err |-> "nil", obj |-> calc.objects + 1]]
           \/ calc' = [calc EXCEPT !.failures[k] = @ + 1,
                                   !.caller[c].pc = "fndone",
                                   !.caller[c].result = [err |-> "error", obj |-> 0]]
    /\ ValidatorUnchanged

\* v.compiled[key] = compiled under the write lock
CacheStore(c) ==
    /\ calc.caller[c].pc = "store"
    /\ LET k == calc.caller[c].key
       IN  calc' = [calc EXCEPT
                       !.compiled = [x \in DOMAIN @ \cup {k} |->
                                        IF x = k THEN calc.caller[c].result.obj ELSE @[x]],
                       !.caller[c].pc = "fndone"]
    /\ ValidatorUnchanged

\* the function has returned: the group forgets the key and hands the
\* result of the function to the caller that ran it and to those that joined
GroupDone(c) ==
    /\ calc.caller[c].pc = "fndone"
    /\ LET k      == calc.caller[c].key
           result == calc.caller[c].result
           served == calc.flight[k].waiters \cup {c}
       IN  calc' = [calc EXCEPT
                       !.flight[k] = NoFlight,
                       !.obtained[k] = Obtained(k, result),
                       !.caller = [x \in ValidateCallers |->
                                      IF x \in served THEN Returned(x, result) ELSE @[x]]]
    /\ ValidatorUnchanged

\* InvalidateCache(schema), once for a key
InvalidateCache(k) ==
    /\ calc.pc = "validator"
    /\ ~calc.invalidated[k]
    /\ calc' = [calc EXCEPT !.compiled = [x \in DOMAIN @ \ {k} |-> @[x]],
                            !.invalidated[k] = TRUE]
    /\ ValidatorUnchanged

ValidateCallerNext(c) ==
    \/ ValidateDataCall(c)
    \/ CacheCheck(c)
    \/ GroupDo(c)
    \/ DoubleCheck(c)
    \/ Compile(c)
    \/ CacheStore(c)
    \/ GroupDone(c)

NextValidator ==
    \/ \E c \in ValidateCallers : ValidateCallerNext(c)
    \/ \E k \in SchemaKeys : InvalidateCache(k)

SpecValidator == InitValidator /\ [][NextValidator]_vars

CompileCacheStep ==
    \A k \in SchemaKeys :
        \* without an invalidation: one compilation that succeeds at most,
        \* one compiled schema for every caller, and it is the cached one
        /\ ~calc.invalidated[k]
              => /\ calc.compiles[k] <= 1
                 /\ Cardinality(calc.obtained[k]) <= 1
                 /\ (k \in DOMAIN calc.compiled => calc.obtained[k] \subseteq {calc.compiled[k]})
        \* a compilation that fails leaves the cache as it is
        /\ calc'.failures[k] # calc.failures[k] => calc'.compiled = calc.compiled
        \* without a cached schema the function of the group compiles
        /\ \A c \in ValidateCallers :
              (calc.caller[c].pc = "doublecheck" /\ calc.caller[c].key = k
                  /\ k \notin DOMAIN calc.compiled)
                 => (calc'.caller[c] # calc.caller[c] => calc'.caller[c].pc = "compile")

\* C40: the compiled-schema cache under concurrency: for concurrent
\* ValidateData calls on the same schema with no InvalidateCache in between,
\* the schema is compiled successfully at most once and every caller that
\* gets a compiled schema gets the same one; a compilation that fails caches
\* nothing, so that a later call compiles again.
CompileOnce == [][CompileCacheStep]_vars

\* both callers hold the one compiled schema of a key that failed to
\* compile in its first call: one joined or followed the other's second call
CompileOnceWitness ==
    \E k \in SchemaKeys :
        /\ ~calc.invalidated[k]
        /\ calc.failures[k] = 1
        /\ calc.compiles[k] = 1
        /\ k \in DOMAIN calc.compiled
        /\ \A c \in ValidateCallers :
              /\ calc.caller[c].pc = "returned"
              /\ calc.caller[c].key = k
              /\ calc.caller[c].result = [err |-> "nil", obj |-> calc.compiled[k]]

====
